---- MODULE Spec2Model ----
(***************************************************************************)
(* State-machine model of yrgo::machine_learning::NeuralNetwork and       *)
(* DenseLayer (src/neural_network), and of devices::LoopUnit               *)
(* (src/loop_unit_polling), timer::Timer (src/timer), container::List      *)
(* (src/containers) and utils::Matrix (src/matrix).                        *)
(*                                                                         *)
(* Numbers: the doubles of the program are modelled by integers, so that  *)
(* sums and products are exact.  std::size_t indices are 0-based in the   *)
(* program; a TLA+ sequence is 1-based, so element i of a std::vector is  *)
(* element i + 1 of the sequence that models it.  train_order_ keeps the  *)
(* program's 0-based values.                                               *)
(*                                                                         *)
(* dense_layer.hpp and utils.hpp are not part of the available sources:   *)
(* the default arguments of DenseLayer, utils::math and utils::random are *)
(* modelled from the specification text.                                   *)
(***************************************************************************)
EXTENDS Integers, Sequences, FiniteSets, TLC

(***************************************************************************)
(* Bounds of the model.                                                    *)
(***************************************************************************)
\* Largest number of hidden layers the model lets a network grow to.
MaxHiddenLayers == 2
\* Largest num_layers given to addHiddenLayers.
MaxAddLayers == 2
\* Largest number of input vectors / target vectors given to addTrainingData.
MaxSets == 2
\* Largest num_epochs given to train, and the number of epochs all train
\* calls of one behaviour run together.
MaxEpochs == 2
\* Number of input vectors given to printPredictions.
MaxPrints == 2
\* MaxNumSensors of the LoopUnit<MaxNumSensors> the model holds.
MaxNumSensors == 2
\* Number of ids getDeviceId hands out before the model stops creating sensors.
MaxDeviceIds == 4
\* Latest time the modelled system clock reaches.
MaxTime == 4
\* Number of Node objects the heap of the List has room for.
MaxNodes == 3
\* Largest num_columns and num_rows given to Matrix::resize.
MaxColumns == 2
MaxRows == 2
\* Calls made on the DenseLayer used on its own.
MaxLayerCalls == 3

ActFuncs == {"RELU", "TANH"}
\* Node counts and fan-ins given to init, addHiddenLayer(s).
NodeCounts == {0, 1, 2}
\* States of the modelled pseudo-random generator.
RngStates == {0, 1}
\* Learning rates given to train: negative, zero and positive ones.
LearningRates == {-1, 0, 2}
\* Arbitrary values an out-of-range read may deliver.
GarbageVals == {0, 1}

Min(a, b) == IF a < b THEN a ELSE b

(***************************************************************************)
(* utils::math (utils.hpp)                                                 *)
(***************************************************************************)
relu(x) == IF x > 0 THEN x ELSE 0

reluDelta(x) == IF x > 0 THEN 1 ELSE 0

\* tanh rounded to the nearest integer: tanh(0) = 0, |tanh(x)| > 1/2 for
\* every other integer x.
tanh(x) == IF x > 0 THEN 1 ELSE IF x < 0 THEN -1 ELSE 0

tanhDelta(x) == 1 - x * x

(***************************************************************************)
(* utils::random (utils.hpp): one process-wide generator.  Its state is   *)
(* the variable rng; a draw delivers a value of [0, 1) (modelled by 0 or  *)
(* 1) and advances the generator.                                          *)
(***************************************************************************)
NextRng(r) == IF r + 1 \in RngStates THEN r + 1 ELSE 0

RECURSIVE RngAfter(_, _)
RngAfter(r, n) == IF n = 0 THEN r ELSE RngAfter(NextRng(r), n - 1)

\* The value of the n-th draw (n >= 1) made from generator state r.
Draw(r, n) == RngAfter(r, n) % 2

\* initVector(vector, size, min, max): size fresh random values; the draws
\* start after `used` earlier draws from state r.
initVector(r, used, size) == [i \in 1 .. size |-> Draw(r, used + i)]

\* initVector(vector, num_rows, num_columns, min, max).
initVector2(r, used, num_rows, num_columns) ==
    [i \in 1 .. num_rows |->
        [j \in 1 .. num_columns |-> Draw(r, used + (i - 1) * num_columns + j)]]

(***************************************************************************)
(* DenseLayer (dense_layer.cpp)                                            *)
(***************************************************************************)
\* The act_func default argument of the DenseLayer constructor.
DenseLayerDefaultActFunc == "RELU"

\* The learning_rate default argument of DenseLayer::optimize.
DenseLayerDefaultLearningRate == 1

\* DenseLayer(void): every vector empty.
EmptyLayer ==
    [output_ |-> << >>, bias_ |-> << >>, error_ |-> << >>, weights_ |-> << >>,
     act_func_ |-> DenseLayerDefaultActFunc]

getActFuncOutput(sum, act_func) ==
    IF act_func = "RELU" THEN relu(sum) ELSE tanh(sum)

getActFuncDelta(output, act_func) ==
    IF act_func = "RELU" THEN reluDelta(output) ELSE tanhDelta(output)

numNodes(layer) == Len(layer.output_)

numWeightsPerNode(layer) ==
    IF Len(layer.weights_) > 0 THEN Len(layer.weights_[1]) ELSE 0

\* std::vector<double>::resize(n, 0): the first n elements are kept, new
\* elements are 0.
VectorResize(v, n) == [i \in 1 .. n |-> IF i <= Len(v) THEN v[i] ELSE 0]

\* Number of draws one resize takes from the generator.
ResizeDraws(num_nodes, num_weights_per_node) ==
    num_nodes + num_nodes * num_weights_per_node

\* resize that leaves error_ as it is.
resizeKeepsError(layer, r, num_nodes, num_weights_per_node) ==
    [layer EXCEPT
        !.output_ = VectorResize(layer.output_, num_nodes),
        !.bias_ = initVector(r, 0, num_nodes),
        !.weights_ = initVector2(r, num_nodes, num_nodes, num_weights_per_node)]

\* DenseLayer::resize, with the generator in state r.
resize(layer, r, num_nodes, num_weights_per_node) ==
    [layer EXCEPT
        !.output_ = VectorResize(layer.output_, num_nodes),
        !.bias_ = initVector(r, 0, num_nodes),
        !.error_ = VectorResize(layer.error_, num_nodes),
        !.weights_ = initVector2(r, num_nodes, num_nodes, num_weights_per_node)]

\* DenseLayer::init.
layerInit(layer, r, num_nodes, num_weights_per_node, act_func) ==
    resize([layer EXCEPT !.act_func_ = act_func], r, num_nodes, num_weights_per_node)

\* DenseLayer(num_nodes, num_weights_per_node, act_func).
DenseLayer(r, num_nodes, num_weights_per_node, act_func) ==
    layerInit(EmptyLayer, r, num_nodes, num_weights_per_node, act_func)

\* sum of a[j] * b[j] for j in 1 .. n.
RECURSIVE Dot(_, _, _)
Dot(a, b, n) == IF n = 0 THEN 0 ELSE a[n] * b[n] + Dot(a, b, n - 1)

\* feedforward that adds each node's sum to the output the node had before.
feedforwardOntoOutput(layer, input) ==
    [layer EXCEPT !.output_ =
        [i \in 1 .. numNodes(layer) |->
            getActFuncOutput(
                layer.output_[i] + layer.bias_[i]
                + Dot(input, layer.weights_[i],
                      Min(numWeightsPerNode(layer), Len(input))),
                layer.act_func_)]]

\* feedforward whose sums start at 0 instead of the bias.
feedforwardWithoutBias(layer, input) ==
    [layer EXCEPT !.output_ =
        [i \in 1 .. numNodes(layer) |->
            getActFuncOutput(
                Dot(input, layer.weights_[i],
                    Min(numWeightsPerNode(layer), Len(input))),
                layer.act_func_)]]

\* DenseLayer::feedforward.
feedforward(layer, input) ==
    [layer EXCEPT !.output_ =
        [i \in 1 .. numNodes(layer) |->
            getActFuncOutput(
                layer.bias_[i]
                + Dot(input, layer.weights_[i],
                      Min(numWeightsPerNode(layer), Len(input))),
                layer.act_func_)]]

\* backpropagate(reference) that clears the errors it has no reference for.
backpropagateReferenceClearingRest(layer, reference) ==
    [layer EXCEPT !.error_ =
        [i \in 1 .. Len(layer.error_) |->
            IF i <= numNodes(layer) /\ i <= Len(reference)
            THEN (reference[i] - layer.output_[i])
                 * getActFuncDelta(layer.output_[i], layer.act_func_)
            ELSE 0]]

\* DenseLayer::backpropagate(reference).
backpropagateReference(layer, reference) ==
    [layer EXCEPT !.error_ =
        [i \in 1 .. Len(layer.error_) |->
            IF i <= numNodes(layer) /\ i <= Len(reference)
            THEN (reference[i] - layer.output_[i])
                 * getActFuncDelta(layer.output_[i], layer.act_func_)
            ELSE layer.error_[i]]]

\* weights_[j][i] as DenseLayer::backpropagate(next_layer) reads it from the
\* layer's own matrix (0-based j, i); a read outside the matrix is undefined
\* and delivers the arbitrary value g.
InRange(layer, j, i) ==
    j < Len(layer.weights_) /\ i < Len(layer.weights_[j + 1])

WeightAt(layer, j, i, g) ==
    IF InRange(layer, j, i) THEN layer.weights_[j + 1][i + 1] ELSE g

RECURSIVE NextLayerSum(_, _, _, _, _)
NextLayerSum(layer, next_layer, i, n, g) ==
    IF n = 0 THEN 0
    ELSE next_layer.error_[n] * WeightAt(layer, n - 1, i, g)
         + NextLayerSum(layer, next_layer, i, n - 1, g)

\* DenseLayer::backpropagate(next_layer).
backpropagateNext(layer, next_layer, g) ==
    [layer EXCEPT !.error_ =
        [i \in 1 .. Len(layer.error_) |->
            IF i <= numNodes(layer)
            THEN NextLayerSum(layer, next_layer, i - 1, numNodes(next_layer), g)
                 * getActFuncDelta(layer.output_[i], layer.act_func_)
            ELSE layer.error_[i]]]

\* TRUE when backpropagate(next_layer) reads outside the layer's own matrix.
backpropagateOutOfRange(layer, next_layer) ==
    \E i \in 0 .. numNodes(layer) - 1, j \in 0 .. numNodes(next_layer) - 1 :
        ~InRange(layer, j, i)

\* optimize that clears each error once it has used it.
optimizeClearingError(layer, input, learning_rate) ==
    [layer EXCEPT
        !.bias_ = [i \in 1 .. Len(layer.bias_) |->
            IF i <= numNodes(layer)
            THEN layer.bias_[i] + layer.error_[i] * learning_rate
            ELSE layer.bias_[i]],
        !.error_ = [i \in 1 .. Len(layer.error_) |-> 0],
        !.weights_ = [i \in 1 .. Len(layer.weights_) |->
            IF i <= numNodes(layer)
            THEN [j \in 1 .. Len(layer.weights_[i]) |->
                    IF j <= numWeightsPerNode(layer) /\ j <= Len(input)
                    THEN layer.weights_[i][j]
                         + layer.error_[i] * learning_rate * input[j]
                    ELSE layer.weights_[i][j]]
            ELSE layer.weights_[i]]]

\* DenseLayer::optimize.
optimize(layer, input, learning_rate) ==
    [layer EXCEPT
        !.bias_ = [i \in 1 .. Len(layer.bias_) |->
            IF i <= numNodes(layer)
            THEN layer.bias_[i] + layer.error_[i] * learning_rate
            ELSE layer.bias_[i]],
        !.weights_ = [i \in 1 .. Len(layer.weights_) |->
            IF i <= numNodes(layer)
            THEN [j \in 1 .. Len(layer.weights_[i]) |->
                    IF j <= numWeightsPerNode(layer) /\ j <= Len(input)
                    THEN layer.weights_[i][j]
                         + layer.error_[i] * learning_rate * input[j]
                    ELSE layer.weights_[i][j]]
            ELSE layer.weights_[i]]]

(***************************************************************************)
(* The objects of the other programs: one LoopUnit, one Timer, one List,   *)
(* one Matrix and one DenseLayer used on its own.  Each program's         *)
(* operations leave the others alone.                                      *)
(***************************************************************************)
VARIABLES
    sensors_,        \* LoopUnit: std::list<Sensor*>, a sensor named by its id
    device_id,       \* the static id of getDeviceId: the next id handed out
    loop_ret         \* the last LoopUnit call that returned, and its result

VARIABLES
    elapse_time_ns_, \* Timer: std::chrono::nanoseconds
    start_time_,     \* Timer: time_point of system_clock
    enabled_,        \* Timer: bool
    now,             \* what std::chrono::system_clock::now() delivers
    interval_start,  \* the time of the last start() or elapsed() returning true
    timer_ret        \* the last Timer call that returned, when, and its result

VARIABLES
    nodes,           \* List: the Node objects on the heap, by address
    myFirst,         \* List: Node*, 0 for nullptr
    myLast,          \* List: Node*
    mySize,          \* List: std::size_t
    list_pc,         \* "idle", or "crashed" after an undefined access
    list_ret         \* the last List call that returned, and its result

VARIABLES
    data_            \* Matrix: std::vector<std::vector<T>>, a vector per column

VARIABLES
    layer_,          \* a DenseLayer object of its own
    layer_pc,        \* "idle", or "crashed" after an undefined access
    layer_ret,       \* the last DenseLayer call made on it, and its argument
    layer_calls      \* number of calls made on it

loopUnitVars == <<sensors_, device_id, loop_ret>>
timerVars == <<elapse_time_ns_, start_time_, enabled_, now, interval_start, timer_ret>>
listVars == <<nodes, myFirst, myLast, mySize, list_pc, list_ret>>
matrixVars == <<data_>>
denseLayerVars == <<layer_, layer_pc, layer_ret, layer_calls>>
otherVars == <<loopUnitVars, timerVars, listVars, matrixVars, denseLayerVars>>

\* LoopUnit(void): no sensor; the unit's id_ took the first device id.
LoopUnitConstructed ==
    /\ sensors_ = << >>
    /\ device_id = 1
    /\ loop_ret = [op |-> "none", arg |-> 0, value |-> FALSE]

\* Timer(void): every member value-initialized; the clock is past its epoch.
TimerConstructed ==
    /\ elapse_time_ns_ = 0
    /\ start_time_ = 0
    /\ enabled_ = FALSE
    /\ now = 1
    /\ interval_start = 0
    /\ timer_ret = [op |-> "none", at |-> 0, value |-> FALSE]

\* Addresses of the heap the List allocates its nodes from; 0 is nullptr.
NodeAddresses == 1 .. MaxNodes

\* List(): no node.
ListConstructed ==
    /\ nodes = [a \in NodeAddresses |->
                  [allocated |-> FALSE, data |-> 0, previous |-> 0, next |-> 0]]
    /\ myFirst = 0
    /\ myLast = 0
    /\ mySize = 0
    /\ list_pc = "idle"
    /\ list_ret = [op |-> "none", value |-> FALSE]

\* Matrix(void): no column.
MatrixConstructed == data_ = << >>

\* DenseLayer(void), no call made.
NoLayerCall == [op |-> "none", arg |-> << >>]

DenseLayerConstructed ==
    /\ layer_ = EmptyLayer
    /\ layer_pc = "idle"
    /\ layer_ret = NoLayerCall
    /\ layer_calls = 0

OthersConstructed ==
    /\ LoopUnitConstructed
    /\ TimerConstructed
    /\ ListConstructed
    /\ MatrixConstructed
    /\ DenseLayerConstructed

(***************************************************************************)
(* NeuralNetwork (neural_network.hpp, neural_network.cpp)                  *)
(***************************************************************************)
VARIABLES
    hidden_layers_,  \* std::vector<DenseLayer>
    output_layer_,   \* DenseLayer
    train_in_,       \* std::vector<std::vector<double>>
    train_out_,      \* std::vector<std::vector<double>>
    train_order_,    \* std::vector<std::size_t>, 0-based values
    rng,             \* state of the process-wide random generator
    pc,              \* "idle", or the position inside a running train call
    frame,           \* arguments and loop variables of the running train call
    ret,             \* the last public call that returned, and its result
    ub,              \* kinds of undefined accesses made so far
    epochs_total,    \* epochs asked for by the train calls that got past their check
    epochs_run,      \* epochs started by the last train call that got past its check
    updates,         \* example updates made by that train call
    visited          \* 0-based indices updated so far in the current epoch

networkVars ==
    <<hidden_layers_, output_layer_, train_in_, train_out_, train_order_,
      rng, pc, frame, ret, ub, epochs_total, epochs_run, updates, visited>>

vars == <<networkVars, otherVars>>

layerVars == <<hidden_layers_, output_layer_>>
dataVars == <<train_in_, train_out_, train_order_>>
trainVars == <<frame, epochs_run, updates, visited>>

\* Input vectors handed to addTrainingData, predict and printPredictions,
\* and target vectors handed to addTrainingData.
InputData == << <<1, 0>>, <<0, 1>>, <<1, 1>> >>
TargetData == << <<1>>, <<0, 1>>, <<1, 1>> >>

NoFrame == [num_epochs |-> 0, learning_rate |-> 0, i |-> 0, k |-> 0]
NoReturn == [op |-> "none", args |-> << >>, value |-> FALSE]

numInputs == IF Len(hidden_layers_) > 0 THEN numNodes(hidden_layers_[1]) ELSE 0

numOutputs == numNodes(output_layer_)

numHiddenLayers == Len(hidden_layers_)

numTrainingSets == Len(train_order_)

\* learningRateValid accepting a zero learning rate.
learningRateValidOrZero(learning_rate) == learning_rate >= 0

learningRateValid(learning_rate) == learning_rate > 0

\* NeuralNetwork::addFirstHiddenLayer: the layer is built without act_func.
addFirstHiddenLayer(layers, r, num_nodes, num_weights_per_node, act_func) ==
    Append(layers, DenseLayer(r, num_nodes, num_weights_per_node,
                              DenseLayerDefaultActFunc))

\* resizeOutputLayer keeping the output layer's fan-in.
resizeOutputLayerSameFanIn(layer, r, last_nodes) ==
    resize(layer, r, numNodes(layer), numWeightsPerNode(layer))

\* NeuralNetwork::resizeOutputLayer; last_nodes is what
\* lastHiddenLayer().numNodes() delivers.
resizeOutputLayer(layer, r, last_nodes) ==
    resize(layer, r, numNodes(layer), last_nodes)

\* The members of NeuralNetwork(void), the generator seeded to seed.
NetworkConstructed(seed) ==
    /\ hidden_layers_ = << >>
    /\ output_layer_ = EmptyLayer
    /\ train_in_ = << >>
    /\ train_out_ = << >>
    /\ train_order_ = << >>
    /\ rng = seed
    /\ pc = "idle"
    /\ frame = NoFrame
    /\ ret = NoReturn
    /\ ub = {}
    /\ epochs_total = 0
    /\ epochs_run = 0
    /\ updates = 0
    /\ visited = << >>

\* NeuralNetwork(void) with the generator seeded to seed.
Constructed(seed) == NetworkConstructed(seed) /\ OthersConstructed

Init == \E seed \in RngStates : Constructed(seed)

\* A public call starts: no call is running.
CallGuard == pc = "idle"

\* The process ends on an undefined access.
Crash(kind) ==
    /\ pc' = "crashed"
    /\ ub' = ub \cup {kind}
    /\ UNCHANGED <<layerVars, dataVars, rng, trainVars, ret, epochs_total>>

\* NeuralNetwork::init.
init(num_inputs, num_hidden_nodes, num_outputs, hidden_layer_act_func, output_layer_act_func) ==
    /\ UNCHANGED otherVars
    /\ CallGuard
    /\ Len(hidden_layers_) < MaxHiddenLayers
    /\ hidden_layers_' = addFirstHiddenLayer(hidden_layers_, rng, num_hidden_nodes,
                                             num_inputs, hidden_layer_act_func)
    /\ output_layer_' =
          layerInit(output_layer_,
                    RngAfter(rng, ResizeDraws(num_hidden_nodes, num_inputs)),
                    num_outputs, num_hidden_nodes, output_layer_act_func)
    /\ rng' = RngAfter(rng, ResizeDraws(num_hidden_nodes, num_inputs)
                            + ResizeDraws(num_outputs, num_hidden_nodes))
    /\ ret' = [op |-> "init", args |-> << >>, value |-> TRUE]
    /\ UNCHANGED <<dataVars, pc, trainVars, ub, epochs_total>>

\* The loop of addHiddenLayers (one round for addHiddenLayer): num_layers
\* layers are appended, each with the node count of the layer before it as
\* its fan-in; last_nodes is what lastHiddenLayer().numNodes() delivers for
\* the first of them.
RECURSIVE pushHiddenLayers(_, _, _, _, _, _)
pushHiddenLayers(layers, r, last_nodes, num_layers, num_nodes, act_func) ==
    IF num_layers = 0 THEN layers
    ELSE pushHiddenLayers(
            Append(layers, DenseLayer(r, num_nodes, last_nodes, act_func)),
            RngAfter(r, ResizeDraws(num_nodes, last_nodes)),
            num_nodes, num_layers - 1, num_nodes, act_func)

\* Draws made by that loop.
pushDraws(last_nodes, num_layers, num_nodes) ==
    IF num_layers = 0 THEN 0
    ELSE ResizeDraws(num_nodes, last_nodes)
         + (num_layers - 1) * ResizeDraws(num_nodes, num_nodes)

\* The effect shared by addHiddenLayer and addHiddenLayers.  lastHiddenLayer()
\* of an empty hidden_layers_ is hidden_layers_[size() - 1] with size() = 0:
\* an undefined read, which ends the process or delivers an arbitrary node
\* count.
addLayers(op, num_layers, num_nodes, act_func) ==
    /\ UNCHANGED otherVars
    /\ CallGuard
    /\ Len(hidden_layers_) + num_layers <= MaxHiddenLayers
    /\ \/ /\ Len(hidden_layers_) = 0
          /\ Crash("hidden_layers_")
       \/ \E last_nodes \in NodeCounts :
            /\ Len(hidden_layers_) > 0 =>
                  last_nodes = numNodes(hidden_layers_[Len(hidden_layers_)])
            /\ LET layers == pushHiddenLayers(hidden_layers_, rng, last_nodes,
                                              num_layers, num_nodes, act_func)
                   draws == pushDraws(last_nodes, num_layers, num_nodes)
                   \* resizeOutputLayer reads lastHiddenLayer() again
                   out_nodes == IF Len(layers) > 0
                                THEN numNodes(layers[Len(layers)])
                                ELSE last_nodes
               IN  /\ hidden_layers_' = layers
                   /\ output_layer_' = resizeOutputLayer(output_layer_,
                                              RngAfter(rng, draws), out_nodes)
                   /\ rng' = RngAfter(rng, draws
                                + ResizeDraws(numNodes(output_layer_), out_nodes))
            /\ ub' = IF Len(hidden_layers_) = 0
                     THEN ub \cup {"hidden_layers_"} ELSE ub
            /\ ret' = [op |-> op, args |-> << >>, value |-> TRUE]
                    /\ UNCHANGED <<dataVars, pc, trainVars, epochs_total>>

\* NeuralNetwork::addHiddenLayer.
addHiddenLayer(num_nodes, act_func) ==
    addLayers("addHiddenLayer", 1, num_nodes, act_func)

\* NeuralNetwork::addHiddenLayers.
addHiddenLayers(num_layers, num_nodes, act_func) ==
    addLayers("addHiddenLayers", num_layers, num_nodes, act_func)


\* checkTrainingData that truncates nothing.
checkTrainingDataKeepsAll(in, out) == [in |-> in, out |-> out]

\* checkTrainingData on vectors that addTrainingData appended to, instead
\* of assigned.
checkTrainingDataAppended(in, out) ==
    LET all_in == train_in_ \o in
        all_out == train_out_ \o out
        num_sets == IF Len(all_in) < Len(all_out) THEN Len(all_in) ELSE Len(all_out)
    IN  [in |-> SubSeq(all_in, 1, num_sets), out |-> SubSeq(all_out, 1, num_sets)]

\* NeuralNetwork::checkTrainingData.
checkTrainingData(in, out) ==
    IF Len(in) # Len(out)
    THEN LET num_sets == IF Len(in) < Len(out) THEN Len(in) ELSE Len(out)
         IN  [in |-> SubSeq(in, 1, num_sets), out |-> SubSeq(out, 1, num_sets)]
    ELSE [in |-> in, out |-> out]

\* initTrainOrderVector leaving every element 0.
initTrainOrderVectorZeros(in) == [i \in 1 .. Len(in) |-> 0]

\* NeuralNetwork::initTrainOrderVector.
initTrainOrderVector(in) == [i \in 1 .. Len(in) |-> i - 1]

\* NeuralNetwork::addTrainingData.
addTrainingData(train_in, train_out) ==
    /\ UNCHANGED otherVars
    /\ CallGuard
    /\ LET checked == checkTrainingData(train_in, train_out)
       IN  /\ train_in_' = checked.in
           /\ train_out_' = checked.out
           /\ train_order_' = initTrainOrderVector(checked.in)
    /\ ret' = [op |-> "addTrainingData",
               args |-> <<Len(train_in), Len(train_out)>>, value |-> TRUE]
    /\ UNCHANGED <<layerVars, rng, pc, trainVars, ub, epochs_total>>

\* NeuralNetwork::removeTrainingData, the public call.
removeTrainingData ==
    /\ UNCHANGED otherVars
    /\ CallGuard
    /\ train_in_' = << >>
    /\ train_out_' = << >>
    /\ train_order_' = << >>
    /\ ret' = [op |-> "removeTrainingData", args |-> << >>, value |-> TRUE]
    /\ UNCHANGED <<layerVars, rng, pc, trainVars, ub, epochs_total>>

\* feedforwardHidden in which every layer but the first reads the output the
\* layer before it had before the pass.
feedforwardHiddenOnOldOutputs(layers, input, n) ==
    [m \in 1 .. n |->
        feedforward(layers[m], IF m = 1 THEN input ELSE layers[m - 1].output_)]

\* NeuralNetwork::feedforward on the hidden layers 1 .. n (the network has
\* at least one): the first on input, each other on the output of the one
\* before it.
RECURSIVE feedforwardHidden(_, _, _)
feedforwardHidden(layers, input, n) ==
    IF n = 0 THEN << >>
    ELSE LET done == feedforwardHidden(layers, input, n - 1)
         IN  Append(done, feedforward(layers[n],
                              IF n = 1 THEN input ELSE done[n - 1].output_))

\* NeuralNetwork::feedforward that also clears the output layer's errors.
networkFeedforwardClearingError(net, input) ==
    LET hidden == feedforwardHidden(net.hidden, input, Len(net.hidden))
    IN  [hidden |-> hidden,
         output |-> [feedforward(net.output, hidden[Len(hidden)].output_)
                        EXCEPT !.error_ = [i \in 1 .. Len(net.output.error_) |-> 0]]]

\* NeuralNetwork::feedforward.
networkFeedforward(net, input) ==
    LET hidden == feedforwardHidden(net.hidden, input, Len(net.hidden))
    IN  [hidden |-> hidden,
         output |-> feedforward(net.output, hidden[Len(hidden)].output_)]

\* backpropagateHidden from the first hidden layer to the last: each layer
\* but the last reads the error the layer after it had before the pass.
backpropagateHiddenFirstToLast(layers, output, n, g) ==
    [m \in 1 .. Len(layers) - n + 1 |->
        backpropagateNext(layers[n + m - 1],
                          IF n + m - 1 = Len(layers) THEN output
                                                     ELSE layers[n + m],
                          g)]

\* NeuralNetwork::backpropagate on the hidden layers n .. Len(layers), given
\* the output layer with its error computed: the last hidden layer from the
\* output layer, each other from the layer after it.
RECURSIVE backpropagateHidden(_, _, _, _)
backpropagateHidden(layers, output, n, g) ==
    IF n = Len(layers)
    THEN << backpropagateNext(layers[n], output, g) >>
    ELSE LET done == backpropagateHidden(layers, output, n + 1, g)
         IN  << backpropagateNext(layers[n], done[1], g) >> \o done

\* NeuralNetwork::backpropagate.
networkBackpropagate(net, reference, g) ==
    LET output == backpropagateReference(net.output, reference)
    IN  [hidden |-> backpropagateHidden(net.hidden, output, 1, g),
         output |-> output]

\* TRUE when some DenseLayer::backpropagate(next_layer) of one backward pass
\* reads outside the matrix it indexes.
networkBackpropagateOutOfRange(net) ==
    \/ backpropagateOutOfRange(net.hidden[Len(net.hidden)], net.output)
    \/ \E n \in 1 .. Len(net.hidden) - 1 :
          backpropagateOutOfRange(net.hidden[n], net.hidden[n + 1])

\* NeuralNetwork::optimize: the output layer is optimized without the
\* learning rate argument.
networkOptimize(net, input, learning_rate) ==
    [hidden |-> [n \in 1 .. Len(net.hidden) |->
                    optimize(net.hidden[n],
                             IF n = 1 THEN input ELSE net.hidden[n - 1].output_,
                             learning_rate)],
     output |-> optimize(net.output, net.hidden[Len(net.hidden)].output_,
                         DenseLayerDefaultLearningRate)]

\* trainExample that optimizes before it backpropagates.
trainExampleOptimizeFirst(net, i, learning_rate, g) ==
    networkBackpropagate(
        networkOptimize(networkFeedforward(net, train_in_[i + 1]),
                        train_in_[i + 1], learning_rate),
        train_out_[i + 1], g)

\* One round of the loop of NeuralNetwork::executeEpoch, on example i (0-based).
trainExample(net, i, learning_rate, g) ==
    networkOptimize(
        networkBackpropagate(networkFeedforward(net, train_in_[i + 1]),
                             train_out_[i + 1], g),
        train_in_[i + 1], learning_rate)

\* The network's layers as one value.
Net == [hidden |-> hidden_layers_, output |-> output_layer_]

\* NeuralNetwork::train, up to the loop: the check of its arguments.
train(num_epochs, learning_rate) ==
    /\ UNCHANGED otherVars
    /\ CallGuard
    /\ IF ~learningRateValid(learning_rate) \/ numTrainingSets = 0
       THEN /\ ret' = [op |-> "train", args |-> << >>, value |-> FALSE]
            /\ UNCHANGED <<layerVars, dataVars, rng, pc, trainVars, ub, epochs_total>>
       ELSE /\ epochs_total + num_epochs <= MaxEpochs
            /\ epochs_total' = epochs_total + num_epochs
            /\ pc' = "train"
            /\ frame' = [num_epochs |-> num_epochs,
                         learning_rate |-> learning_rate, i |-> 0, k |-> 0]
            /\ epochs_run' = 0
            /\ updates' = 0
            /\ visited' = << >>
            /\ UNCHANGED <<layerVars, dataVars, rng, ret, ub>>

\* The orders utils::random::shuffleVector can leave in a vector.
Shuffles(v) ==
    { [i \in 1 .. Len(v) |-> v[p[i]]] :
        p \in { q \in [1 .. Len(v) -> 1 .. Len(v)] :
                  \A a, b \in 1 .. Len(v) : q[a] = q[b] => a = b } }

\* NeuralNetwork::randomizeTrainingOrder, at the start of round i of the loop
\* of train.
randomizeTrainingOrder ==
    /\ UNCHANGED otherVars
    /\ pc = "train"
    /\ frame.i < frame.num_epochs
    /\ train_order_' \in Shuffles(train_order_)
    /\ rng' = RngAfter(rng, Len(train_order_))
    /\ pc' = "executeEpoch"
    /\ frame' = [frame EXCEPT !.k = 0]
    /\ epochs_run' = epochs_run + 1
    /\ visited' = << >>
    /\ UNCHANGED <<layerVars, train_in_, train_out_, ret, ub, epochs_total, updates>>

\* One round of the loop of NeuralNetwork::executeEpoch.  With no hidden
\* layer, firstHiddenLayer() is hidden_layers_[0] of an empty vector and the
\* iterator loops never meet end(): the process ends.  A backward pass that
\* reads outside a weight matrix ends the process or goes on with an
\* arbitrary value.
executeEpochStep ==
    /\ UNCHANGED otherVars
    /\ pc = "executeEpoch"
    /\ frame.k < Len(train_order_)
    /\ IF Len(hidden_layers_) = 0
       THEN /\ pc' = "crashed"
            /\ ub' = ub \cup {"hidden_layers_"}
            /\ UNCHANGED <<layerVars, dataVars, rng, trainVars, ret, epochs_total>>
       ELSE LET i == train_order_[frame.k + 1]
                oor == networkBackpropagateOutOfRange(
                           networkFeedforward(Net, train_in_[i + 1]))
            IN  \/ /\ oor
                   /\ pc' = "crashed"
                   /\ ub' = ub \cup {"weights_"}
                   /\ UNCHANGED <<layerVars, dataVars, rng, trainVars, ret, epochs_total>>
                \/ \E g \in GarbageVals :
                    /\ ~oor => g = 0
                    /\ LET net == trainExample(Net, i, frame.learning_rate, g)
                       IN  /\ hidden_layers_' = net.hidden
                           /\ output_layer_' = net.output
                    /\ ub' = IF oor THEN ub \cup {"weights_"} ELSE ub
                    /\ frame' = [frame EXCEPT !.k = frame.k + 1]
                    /\ updates' = updates + 1
                    /\ visited' = Append(visited, i)
                    /\ UNCHANGED <<dataVars, rng, pc, ret, epochs_total, epochs_run>>

\* The loop of executeEpoch is through: the next round of the loop of train.
executeEpochEnd ==
    /\ UNCHANGED otherVars
    /\ pc = "executeEpoch"
    /\ frame.k = Len(train_order_)
    /\ pc' = "train"
    /\ frame' = [frame EXCEPT !.i = frame.i + 1]
    /\ UNCHANGED <<layerVars, dataVars, rng, ret, ub, epochs_total, epochs_run,
                   updates, visited>>

\* trainReturn without removeTrainingData.
trainReturnKeepsData ==
    /\ UNCHANGED otherVars
    /\ pc = "train"
    /\ frame.i = frame.num_epochs
    /\ ret' = [op |-> "train", args |-> << >>, value |-> TRUE]
    /\ pc' = "idle"
    /\ UNCHANGED <<layerVars, dataVars, rng, trainVars, ub, epochs_total>>

\* The loop of train is through: removeTrainingData, return true.
trainReturn ==
    /\ UNCHANGED otherVars
    /\ pc = "train"
    /\ frame.i = frame.num_epochs
    /\ train_in_' = << >>
    /\ train_out_' = << >>
    /\ train_order_' = << >>
    /\ ret' = [op |-> "train", args |-> << >>, value |-> TRUE]
    /\ pc' = "idle"
    /\ UNCHANGED <<layerVars, rng, trainVars, ub, epochs_total>>

\* NeuralNetwork::predict.  With no hidden layer the forward pass ends the
\* process (see executeEpochStep).
predict(input) ==
    /\ UNCHANGED otherVars
    /\ CallGuard
    /\ IF Len(hidden_layers_) = 0
       THEN Crash("hidden_layers_")
       ELSE LET net == networkFeedforward(Net, input)
            IN  /\ hidden_layers_' = net.hidden
                /\ output_layer_' = net.output
                /\ ret' = [op |-> "predict", args |-> << >>, value |-> net.output.output_]
                            /\ UNCHANGED <<dataVars, rng, pc, trainVars, ub, epochs_total>>

\* The loop of printPredictions: predict on each input in turn.
RECURSIVE predictAll(_, _, _)
predictAll(net, inputs, n) ==
    IF n = 0 THEN net
    ELSE networkFeedforward(predictAll(net, inputs, n - 1), inputs[n])

\* NeuralNetwork::printPredictions; the value recorded is what it printed
\* after "Output:" for each input.
printPredictions(inputs) ==
    /\ UNCHANGED otherVars
    /\ CallGuard
    /\ IF Len(hidden_layers_) = 0 /\ Len(inputs) > 0
       THEN Crash("hidden_layers_")
       ELSE LET net == predictAll(Net, inputs, Len(inputs))
            IN  /\ hidden_layers_' = net.hidden
                /\ output_layer_' = net.output
                /\ ret' = [op |-> "printPredictions", args |-> << >>,
                           value |-> [n \in 1 .. Len(inputs) |->
                                        predictAll(Net, inputs, n).output.output_]]
                            /\ UNCHANGED <<dataVars, rng, pc, trainVars, ub, epochs_total>>

(***************************************************************************)
(* Specifications                                                          *)
(***************************************************************************)
InitCall ==
    \E num_inputs, num_hidden_nodes, num_outputs \in NodeCounts :
        \E hidden_layer_act_func, output_layer_act_func \in ActFuncs :
            init(num_inputs, num_hidden_nodes, num_outputs,
                 hidden_layer_act_func, output_layer_act_func)

AddHiddenLayerCall ==
    \E num_nodes \in NodeCounts, act_func \in ActFuncs :
        addHiddenLayer(num_nodes, act_func)

AddHiddenLayersCall ==
    \E num_layers \in 0 .. MaxAddLayers, num_nodes \in NodeCounts,
       act_func \in ActFuncs :
        addHiddenLayers(num_layers, num_nodes, act_func)

AddTrainingDataCall ==
    \E a, b \in 0 .. MaxSets :
        addTrainingData(SubSeq(InputData, 1, a), SubSeq(TargetData, 1, b))

TrainCall ==
    \E num_epochs \in 0 .. MaxEpochs, learning_rate \in LearningRates :
        train(num_epochs, learning_rate)

PredictCall == \E n \in 1 .. MaxPrints : predict(InputData[n])

PrintPredictionsCall ==
    \E n \in 0 .. MaxPrints : printPredictions(SubSeq(InputData, 1, n))

\* The calls that build the network, with fewer arguments: the ones of
\* Spec, which also loads data, trains and predicts.
InitArgs ==
    { <<2, 2, 1, "RELU", "RELU">>, <<2, 1, 2, "TANH", "TANH">>,
      <<1, 2, 1, "TANH", "RELU">> }

InitCallFew == init(2, 1, 2, "TANH", "RELU")

AddHiddenLayerCallFew ==
    addHiddenLayer(2, "TANH")

AddHiddenLayersCallFew ==
    \E num_layers \in {0, 1} : addHiddenLayers(num_layers, 2, "TANH")

\* NeuralNetwork(num_inputs, num_hidden_nodes, num_outputs, ...): init on
\* the members' initial values.
ConstructedWith(seeds, args) ==
    \E seed \in seeds, a \in args :
        /\ hidden_layers_ =
              addFirstHiddenLayer(<< >>, seed, a[2], a[1], a[4])
        /\ output_layer_ =
              layerInit(EmptyLayer, RngAfter(seed, ResizeDraws(a[2], a[1])),
                        a[3], a[2], a[5])
        /\ rng = RngAfter(seed, ResizeDraws(a[2], a[1]) + ResizeDraws(a[3], a[2]))
        /\ train_in_ = << >>
        /\ train_out_ = << >>
        /\ train_order_ = << >>
        /\ pc = "idle"
        /\ frame = NoFrame
        /\ ret = NoReturn
        /\ ub = {}
        /\ epochs_total = 0
        /\ epochs_run = 0
        /\ updates = 0
        /\ visited = << >>
        /\ OthersConstructed

AddTrainingDataArgsFew == {<<2, 2>>, <<2, 1>>, <<1, 0>>}

AddTrainingDataCallFew ==
    \E ab \in AddTrainingDataArgsFew :
        addTrainingData(SubSeq(InputData, 1, ab[1]), SubSeq(TargetData, 1, ab[2]))

TrainCallFew ==
    \E learning_rate \in {0, 1} : train(1, learning_rate)

PredictCallFew == predict(InputData[1])

PrintPredictionsCallFew == printPredictions(<<InputData[1]>>)

Next ==
    \/ InitCallFew
    \/ AddHiddenLayerCallFew
    \/ AddHiddenLayersCallFew
    \/ AddTrainingDataCallFew
    \/ removeTrainingData
    \/ TrainCallFew
    \/ randomizeTrainingOrder
    \/ executeEpochStep
    \/ executeEpochEnd
    \/ trainReturn
    \/ PredictCallFew
    \/ PrintPredictionsCallFew

InitConstructed == ConstructedWith(RngStates, InitArgs)

InitConstructedFew == ConstructedWith({0}, {<<2, 2, 1, "TANH", "TANH">>})

Spec == InitConstructedFew /\ [][Next]_vars

NextBuild ==
    \/ InitCall
    \/ AddHiddenLayerCall
    \/ AddHiddenLayersCall

SpecBuild == Init /\ [][NextBuild]_vars

NextTrain ==
    \/ AddTrainingDataCall
    \/ removeTrainingData
    \/ TrainCall
    \/ randomizeTrainingOrder
    \/ executeEpochStep
    \/ executeEpochEnd
    \/ trainReturn
    \/ PredictCall
    \/ PrintPredictionsCall

SpecTrain == InitConstructed /\ [][NextTrain]_vars

\* NeuralNetwork network{2, 2, 1, RELU, RELU} followed by
\* network.addHiddenLayer(2, act_func): two hidden layers of two nodes and
\* one output node.
InitConstructedDeep ==
    \E seed \in RngStates, act_func \in ActFuncs :
        LET first == addFirstHiddenLayer(<< >>, seed, 2, 2, "RELU")
            output == layerInit(EmptyLayer, RngAfter(seed, ResizeDraws(2, 2)),
                                1, 2, "RELU")
            r1 == RngAfter(seed, ResizeDraws(2, 2) + ResizeDraws(1, 2))
            r2 == RngAfter(r1, pushDraws(2, 1, 2))
        IN  /\ hidden_layers_ = pushHiddenLayers(first, r1, 2, 1, 2, act_func)
            /\ output_layer_ = resizeOutputLayer(output, r2, 2)
            /\ rng = RngAfter(r2, ResizeDraws(1, 2))
            /\ train_in_ = << >>
            /\ train_out_ = << >>
            /\ train_order_ = << >>
            /\ pc = "idle"
            /\ frame = NoFrame
            /\ ret = [op |-> "addHiddenLayer", args |-> << >>, value |-> TRUE]
            /\ ub = {}
            /\ epochs_total = 0
            /\ epochs_run = 0
            /\ updates = 0
            /\ visited = << >>
            /\ OthersConstructed

\* Loading data, training and predicting on such a network.
SpecDeep == InitConstructedDeep /\ [][NextTrain]_vars

(***************************************************************************)
(* devices::LoopUnit<MaxNumSensors> (loop_unit.hpp) and getDeviceId        *)
(* (sensor.cpp).  A Sensor* is modelled by the id of the sensor it points  *)
(* at, nullptr by 0 (the id the unit itself took).  The values a sensor    *)
(* holds play no part in what the unit does with its list.                 *)
(***************************************************************************)
capacity == MaxNumSensors

numSensors == Len(sensors_)

\* full that lets one sensor more in.
fullAboveCapacity == numSensors > capacity

full == numSensors >= capacity

\* The unit takes calls until an undefined delete ends the process.
LoopUnitRunning == loop_ret.op # "crashed"

\* TRUE when some pointer is held twice.
HoldsDuplicate(list) ==
    \E i, j \in 1 .. Len(list) : i # j /\ list[i] = list[j]

\* addSensor(Sensor*): what it leaves in the list and what it returns.
addSensorPointer(new_sensor) ==
    /\ LoopUnitRunning
    /\ IF full \/ new_sensor = 0
       THEN /\ loop_ret' = [op |-> "addSensor", arg |-> new_sensor, value |-> FALSE]
            /\ UNCHANGED sensors_
       ELSE /\ sensors_' = Append(sensors_, new_sensor)
            /\ loop_ret' = [op |-> "addSensor", arg |-> new_sensor, value |-> TRUE]

\* addSensor(min_val, max_val, enabled): a sensor is created, and takes the
\* next device id, only when the unit is not full.
addSensor ==
    /\ IF full
       THEN /\ LoopUnitRunning
            /\ loop_ret' = [op |-> "addSensor", arg |-> device_id, value |-> FALSE]
            /\ UNCHANGED <<sensors_, device_id>>
       ELSE /\ device_id < MaxDeviceIds
            /\ device_id' = device_id + 1
            /\ addSensorPointer(device_id)
    /\ UNCHANGED <<networkVars, timerVars, listVars, matrixVars, denseLayerVars>>

\* addSensor(Sensor*) and addSensor(Sensor&) with a sensor the caller
\* made: a new one (fresh) or one the unit holds already; addSensor(Sensor*)
\* with nullptr.
addSensorOfCaller(new_sensor, fresh) ==
    /\ fresh => device_id < MaxDeviceIds
    /\ device_id' = IF fresh THEN device_id + 1 ELSE device_id
    /\ addSensorPointer(new_sensor)
    /\ UNCHANGED <<networkVars, timerVars, listVars, matrixVars, denseLayerVars>>

\* The loop of addSensors: addSensor until i reaches num_new_sensors or the
\* unit is at capacity; list holds the sensors, id is the next device id.
RECURSIVE addSensorsLoop(_, _, _, _)
addSensorsLoop(list, id, i, num_new_sensors) ==
    IF i < num_new_sensors /\ Len(list) < capacity
    THEN addSensorsLoop(Append(list, id), id + 1, i + 1, num_new_sensors)
    ELSE [sensors |-> list, id |-> id]

\* addSensors(min_val, max_val, num_new_sensors, enabled).
addSensors(num_new_sensors) ==
    /\ LoopUnitRunning
    /\ IF full
       THEN /\ loop_ret' = [op |-> "addSensors", arg |-> num_new_sensors,
                            value |-> FALSE]
            /\ UNCHANGED <<sensors_, device_id>>
       ELSE LET done == addSensorsLoop(sensors_, device_id, 0, num_new_sensors)
            IN  /\ done.id <= MaxDeviceIds
                /\ sensors_' = done.sensors
                /\ device_id' = done.id
                /\ loop_ret' = [op |-> "addSensors", arg |-> num_new_sensors,
                                value |-> TRUE]
    /\ UNCHANGED <<networkVars, timerVars, listVars, matrixVars, denseLayerVars>>

\* removeAllSensors: delete on every pointer, then clear.  A pointer held
\* twice is deleted twice: the process ends or goes on.
removeAllSensors ==
    /\ LoopUnitRunning
    /\ \/ /\ sensors_' = << >>
          /\ loop_ret' = [op |-> "removeAllSensors", arg |-> 0, value |-> TRUE]
       \/ /\ HoldsDuplicate(sensors_)
          /\ loop_ret' = [op |-> "crashed", arg |-> 0, value |-> FALSE]
          /\ UNCHANGED sensors_
    /\ UNCHANGED <<device_id, networkVars, timerVars, listVars, matrixVars, denseLayerVars>>

\* getSensor: the first sensor held with the id, 0 (nullptr) when none.
getSensor(sensor_id) ==
    IF \E i \in 1 .. Len(sensors_) : sensors_[i] = sensor_id
    THEN sensor_id
    ELSE 0

\* removeSensor: std::list::remove takes out every element equal to the
\* pointer.
removeSensor(sensor_id) ==
    /\ LoopUnitRunning
    /\ IF getSensor(sensor_id) = 0
       THEN /\ loop_ret' = [op |-> "removeSensor", arg |-> sensor_id, value |-> FALSE]
            /\ UNCHANGED sensors_
       ELSE /\ sensors_' = SelectSeq(sensors_, LAMBDA p : p # getSensor(sensor_id))
            /\ loop_ret' = [op |-> "removeSensor", arg |-> sensor_id, value |-> TRUE]
    /\ UNCHANGED <<device_id, networkVars, timerVars, listVars, matrixVars, denseLayerVars>>

AddSensorOfCallerCall ==
    \/ addSensorOfCaller(0, FALSE)
    \/ addSensorOfCaller(device_id, TRUE)
    \/ \E i \in 1 .. Len(sensors_) : addSensorOfCaller(sensors_[i], FALSE)

AddSensorsCall ==
    \E num_new_sensors \in 0 .. MaxNumSensors + 1 : addSensors(num_new_sensors)

RemoveSensorCall == \E sensor_id \in 0 .. MaxDeviceIds : removeSensor(sensor_id)

NextLoopUnit ==
    \/ addSensor
    \/ AddSensorOfCallerCall
    \/ AddSensorsCall
    \/ removeAllSensors
    \/ RemoveSensorCall

SpecLoopUnit == Constructed(0) /\ [][NextLoopUnit]_vars

(***************************************************************************)
(* timer::Timer (timer.hpp, timer.cpp).  Times are whole nanoseconds; the  *)
(* conversions to double seconds of timeDelta_s and timeElapsed_s are the  *)
(* same division applied to both sides of the comparison and are left out. *)
(***************************************************************************)
\* Elapse times given to init and setElapseTime_ns.
ElapseTimes == {0, 1, 2}

\* Timer::getElapseTime_ns.
getElapseTime_ns == elapse_time_ns_

\* Timer::timeDelta_s when the clock shows t: the time since start_time_.
timeDelta(t) == t - start_time_

\* Timer::timeElapsed_s.
timeElapsed == getElapseTime_ns

TimerReturn(op, value) == timer_ret' = [op |-> op, at |-> now, value |-> value]

\* The body of start that leaves start_time_ as it is.
startBodyKeepsStartTime ==
    /\ UNCHANGED start_time_
    /\ enabled_' = TRUE
    /\ interval_start' = now

\* The body of Timer::start.
startBody ==
    /\ start_time_' = now
    /\ enabled_' = TRUE
    /\ interval_start' = now

\* The body of Timer::stop.
stopBody ==
    /\ enabled_' = FALSE
    /\ UNCHANGED <<start_time_, interval_start>>

\* Timer::setElapseTime_ns: elapse_time_ns >= 0 holds for every std::uint64_t.
setElapseTime_ns(time_ns) ==
    /\ elapse_time_ns_' = time_ns
    /\ TimerReturn("setElapseTime_ns", TRUE)
    /\ UNCHANGED <<start_time_, enabled_, now, interval_start>>
    /\ UNCHANGED <<networkVars, loopUnitVars, listVars, matrixVars, denseLayerVars>>

\* Timer::init.
timerInit(elapse_time_ns, enabled) ==
    /\ elapse_time_ns_' = elapse_time_ns
    /\ IF enabled
       THEN startBody
       ELSE UNCHANGED <<start_time_, enabled_, interval_start>>
    /\ TimerReturn("init", TRUE)
    /\ UNCHANGED now
    /\ UNCHANGED <<networkVars, loopUnitVars, listVars, matrixVars, denseLayerVars>>

\* Timer::start.
start ==
    /\ startBody
    /\ TimerReturn("start", TRUE)
    /\ UNCHANGED <<elapse_time_ns_, now>>
    /\ UNCHANGED <<networkVars, loopUnitVars, listVars, matrixVars, denseLayerVars>>

\* Timer::stop.
stop ==
    /\ stopBody
    /\ TimerReturn("stop", TRUE)
    /\ UNCHANGED <<elapse_time_ns_, now>>
    /\ UNCHANGED <<networkVars, loopUnitVars, listVars, matrixVars, denseLayerVars>>

\* Timer::toggle.
toggle ==
    /\ IF enabled_ THEN stopBody ELSE startBody
    /\ TimerReturn("toggle", TRUE)
    /\ UNCHANGED <<elapse_time_ns_, now>>
    /\ UNCHANGED <<networkVars, loopUnitVars, listVars, matrixVars, denseLayerVars>>

\* Timer::elapsed.  The clock is read once by timeDelta_s (it shows now) and
\* once more for the new start_time_ (it shows t, the same or later).
elapsed ==
    /\ IF enabled_ /\ getElapseTime_ns # 0 /\ timeDelta(now) >= timeElapsed
       THEN \E t \in now .. Min(now + 1, MaxTime) :
               /\ start_time_' = t
               /\ interval_start' = t
               /\ now' = t
               /\ timer_ret' = [op |-> "elapsed", at |-> t, value |-> TRUE]
       ELSE /\ TimerReturn("elapsed", FALSE)
            /\ UNCHANGED <<start_time_, interval_start, now>>
    /\ UNCHANGED <<elapse_time_ns_, enabled_>>
    /\ UNCHANGED <<networkVars, loopUnitVars, listVars, matrixVars, denseLayerVars>>

\* Time passes: the system clock shows one nanosecond more.
ClockTick ==
    /\ now < MaxTime
    /\ now' = now + 1
    /\ UNCHANGED <<elapse_time_ns_, start_time_, enabled_, interval_start, timer_ret>>
    /\ UNCHANGED <<networkVars, loopUnitVars, listVars, matrixVars, denseLayerVars>>

\* std::chrono::system_clock is not steady: it can be set back.
ClockSetBack ==
    /\ \E t \in 0 .. now - 1 : now' = t
    /\ UNCHANGED <<elapse_time_ns_, start_time_, enabled_, interval_start, timer_ret>>
    /\ UNCHANGED <<networkVars, loopUnitVars, listVars, matrixVars, denseLayerVars>>

TimerInitCall ==
    \E elapse_time_ns \in ElapseTimes, enabled \in BOOLEAN :
        timerInit(elapse_time_ns, enabled)

SetElapseTimeCall == \E time_ns \in ElapseTimes : setElapseTime_ns(time_ns)

NextTimer ==
    \/ TimerInitCall
    \/ SetElapseTimeCall
    \/ start
    \/ stop
    \/ toggle
    \/ elapsed
    \/ ClockTick
    \/ ClockSetBack

SpecTimer == Constructed(0) /\ [][NextTimer]_vars

(***************************************************************************)
(* container::List<T> (list.h).  A Node* is an address of NodeAddresses,   *)
(* nullptr is 0.  A write through nullptr is undefined: the process ends,  *)
(* or the write is lost and the call goes on; the model follows the        *)
(* process no further after either.                                        *)
(***************************************************************************)
\* Values pushed to the list.
ListValues == {1, 2}

\* Addresses std::malloc can hand out.
FreeAddresses(heap) == {a \in NodeAddresses : ~heap[a].allocated}

\* Node::create on address a.
create(heap, a, data) ==
    [heap EXCEPT ![a] = [allocated |-> TRUE, data |-> data,
                         previous |-> 0, next |-> 0]]

\* Node::destroy: std::free; the bytes stay as they are.
destroy(heap, a) == [heap EXCEPT ![a].allocated = FALSE]

\* node->next = value and node->previous = value; through nullptr the write
\* is lost.
SetNext(heap, node, value) ==
    IF node = 0 THEN heap ELSE [heap EXCEPT ![node].next = value]

SetPrevious(heap, node, value) ==
    IF node = 0 THEN heap ELSE [heap EXCEPT ![node].previous = value]

\* The nodes an iterator meets from node a on with operator++, until it is
\* nullptr; at most n of them.
RECURSIVE NodesFrom(_, _, _)
NodesFrom(heap, a, n) ==
    IF a = 0 \/ n = 0 THEN << >>
    ELSE << a >> \o NodesFrom(heap, heap[a].next, n - 1)

\* The nodes between begin() and end().
ListNodes(heap, first) == NodesFrom(heap, first, MaxNodes + 1)

ListRunning == list_pc = "idle"

ListReturn(op, value) == list_ret' = [op |-> op, value |-> value]

ListFrame == UNCHANGED <<networkVars, loopUnitVars, timerVars, matrixVars, denseLayerVars>>

\* std::malloc returned nullptr in Node::create: the push returns false.
pushFails(op) ==
    /\ ListRunning
    /\ ListReturn(op, FALSE)
    /\ UNCHANGED <<nodes, myFirst, myLast, mySize, list_pc>>
    /\ ListFrame

\* List::pushFront with the new node at address a.
pushFront(value, a) ==
    /\ ListRunning
    /\ a \in FreeAddresses(nodes)
    /\ LET heap == create(nodes, a, value)
       IN  IF mySize = 0
           THEN /\ nodes' = heap
                /\ myFirst' = a
                /\ myLast' = a
           ELSE /\ nodes' = SetPrevious(SetNext(heap, a, myFirst), myFirst, a)
                /\ myFirst' = a
                /\ UNCHANGED myLast
    /\ mySize' = mySize + 1
    /\ ListReturn("pushFront", TRUE)
    /\ UNCHANGED list_pc
    /\ ListFrame

\* List::pushBack with the new node at address a.
pushBack(value, a) ==
    /\ ListRunning
    /\ a \in FreeAddresses(nodes)
    /\ LET heap == create(nodes, a, value)
       IN  IF mySize = 0
           THEN /\ nodes' = heap
                /\ myFirst' = a
                /\ myLast' = a
           ELSE /\ nodes' = SetPrevious(SetNext(heap, myLast, a), a, myLast)
                /\ myLast' = a
                /\ UNCHANGED myFirst
    /\ mySize' = mySize + 1
    /\ ListReturn("pushBack", TRUE)
    /\ UNCHANGED list_pc
    /\ ListFrame

\* List::removeAllNodes: every node between begin() and end() is destroyed.
removeAllNodes(heap, first) ==
    [a \in NodeAddresses |->
        IF \E i \in 1 .. Len(ListNodes(heap, first)) : ListNodes(heap, first)[i] = a
        THEN [heap[a] EXCEPT !.allocated = FALSE]
        ELSE heap[a]]

\* The body of List::clear.
clearBody ==
    /\ nodes' = removeAllNodes(nodes, myFirst)
    /\ myFirst' = 0
    /\ myLast' = 0
    /\ mySize' = 0

\* List::clear.
clear ==
    /\ ListRunning
    /\ clearBody
    /\ ListReturn("clear", TRUE)
    /\ UNCHANGED list_pc
    /\ ListFrame

\* List::popFront.
popFront ==
    /\ ListRunning
    /\ IF mySize <= 1
       THEN clearBody
       ELSE LET node1 == myFirst
                node2 == nodes[node1].next
            IN  /\ nodes' = destroy(SetPrevious(nodes, node2, 0), node1)
                /\ myFirst' = node2
                /\ mySize' = mySize - 1
                /\ UNCHANGED myLast
    /\ ListReturn("popFront", TRUE)
    /\ UNCHANGED list_pc
    /\ ListFrame

\* List::popBack.
popBack ==
    /\ ListRunning
    /\ IF mySize <= 1
       THEN clearBody
       ELSE LET node2 == myLast
                node1 == nodes[node2].previous
            IN  /\ nodes' = destroy(SetNext(nodes, node1, 0), node2)
                /\ myLast' = node1
                /\ mySize' = mySize - 1
                /\ UNCHANGED myFirst
    /\ ListReturn("popBack", TRUE)
    /\ UNCHANGED list_pc
    /\ ListFrame

\* List::remove with an iterator at node `iterator` (0: an iterator equal to
\* nullptr, as end() is).  myFirst and myLast are not written.
remove(iterator) ==
    /\ ListRunning
    /\ IF iterator = 0
       THEN /\ ListReturn("remove", FALSE)
            /\ UNCHANGED <<nodes, myFirst, myLast, mySize, list_pc>>
       ELSE LET node2 == iterator
                node1 == nodes[node2].previous
                node3 == nodes[node2].next
            IN  \/ /\ node1 = 0 \/ node3 = 0
                   /\ list_pc' = "crashed"
                   /\ UNCHANGED <<nodes, myFirst, myLast, mySize, list_ret>>
                \/ /\ nodes' = destroy(SetPrevious(SetNext(nodes, node1, node3),
                                                   node3, node1), node2)
                   /\ mySize' = mySize - 1
                   /\ ListReturn("remove", TRUE)
                   /\ list_pc' = IF node1 = 0 \/ node3 = 0
                                 THEN "undefined" ELSE "idle"
                   /\ UNCHANGED <<myFirst, myLast>>
    /\ ListFrame

PushFrontCall ==
    \/ \E value \in ListValues, a \in NodeAddresses : pushFront(value, a)
    \/ pushFails("pushFront")

PushBackCall ==
    \/ \E value \in ListValues, a \in NodeAddresses : pushBack(value, a)
    \/ pushFails("pushBack")

\* remove with begin(), last(), an iterator moved from begin() by
\* operator++, or end().
RemoveCall ==
    \E i \in 0 .. Len(ListNodes(nodes, myFirst)) :
        remove(IF i = 0 THEN 0 ELSE ListNodes(nodes, myFirst)[i])

NextList ==
    \/ PushFrontCall
    \/ PushBackCall
    \/ popFront
    \/ popBack
    \/ clear
    \/ RemoveCall

SpecList == Constructed(0) /\ [][NextList]_vars

(***************************************************************************)
(* utils::Matrix<int> (matrix.hpp)                                         *)
(***************************************************************************)
\* Element values of the matrix.
MatrixValues == {0, 1, 2}

\* numColumns(): the size of data_.
numColumns == Len(data_)

\* numRows(): the size of the first column, 0 for an empty matrix.
numRows == IF Len(data_) > 0 THEN Len(data_[1]) ELSE 0

\* std::vector<T>(num_rows, value).
filledColumn(num_rows, value) == [i \in 1 .. num_rows |-> value]

\* std::vector::resize(num_columns, column): the first num_columns columns
\* stay as they are, copies of column are appended up to num_columns.
vectorResize(data, num_columns, column) ==
    [j \in 1 .. num_columns |-> IF j <= Len(data) THEN data[j] ELSE column]

\* What resize leaves in data_: the appended columns are filled with 0,
\* start_val is not read.
resized(data, num_columns, num_rows, start_val) ==
    vectorResize(data, num_columns, filledColumn(num_rows, 0))

MatrixFrame == UNCHANGED <<networkVars, loopUnitVars, timerVars, listVars, denseLayerVars>>

\* resize(num_columns, num_rows, start_val)
matrixResize(num_columns, num_rows, start_val) ==
    /\ data_' = resized(data_, num_columns, num_rows, start_val)
    /\ MatrixFrame

\* Matrix(num_columns, num_rows, start_val): resize of an empty matrix.
Matrix(num_columns, num_rows, start_val) ==
    /\ data_' = resized(<< >>, num_columns, num_rows, start_val)
    /\ MatrixFrame

\* clear()
matrixClear ==
    /\ data_' = << >>
    /\ MatrixFrame

\* The longest column of data.
longestColumn(data) ==
    IF data = << >> THEN 0
    ELSE CHOOSE n \in {Len(data[j]) : j \in 1 .. Len(data)} :
             \A j \in 1 .. Len(data) : Len(data[j]) <= n

\* randomize(min, max): every element gets a value of getRandom(min, max),
\* (std::rand() % (max - min + 1)) + min, any value of min .. max.
randomize(min, max) ==
    /\ \E random \in [1 .. Len(data_) -> [1 .. longestColumn(data_) -> min .. max]] :
          data_' = [j \in 1 .. Len(data_) |-> [i \in 1 .. Len(data_[j]) |-> random[j][i]]]
    /\ MatrixFrame

MatrixResizeCall ==
    \E num_columns \in 0 .. MaxColumns, num_rows \in 0 .. MaxRows, start_val \in MatrixValues :
        matrixResize(num_columns, num_rows, start_val)

MatrixCall ==
    \E num_columns \in 0 .. MaxColumns, num_rows \in 0 .. MaxRows, start_val \in MatrixValues :
        Matrix(num_columns, num_rows, start_val)

RandomizeCall ==
    \E min \in MatrixValues, max \in MatrixValues :
        /\ min <= max
        /\ randomize(min, max)

NextMatrix ==
    \/ MatrixCall
    \/ MatrixResizeCall
    \/ matrixClear
    \/ RandomizeCall

SpecMatrix == Constructed(0) /\ [][NextMatrix]_vars

(***************************************************************************)
(* A DenseLayer used on its own (dense_layer.cpp): the calls a network     *)
(* makes on its layers, made on one layer with arguments of any length.    *)
(***************************************************************************)
\* Weights and biases the layer starts with: values init can draw and values
\* optimize calls can leave.
LayerWeights == {-1, 1}
LayerBiases == {0, 1}

\* Input vectors shorter than, as long as and longer than the fan-in.
LayerInputs == { <<2>>, <<2, 2>>, <<2, 2, 1>> }

\* Reference vectors shorter than, as long as and longer than the layer.
LayerReferences == { <<2>>, <<0, 1>>, <<1, 1, 1>> }

\* A layer of Len(error) nodes holding error, as a next_layer argument.
LayerWithError(error) ==
    [EmptyLayer EXCEPT !.output_ = [i \in 1 .. Len(error) |-> 0],
                       !.bias_ = [i \in 1 .. Len(error) |-> 0],
                       !.error_ = error]

NextLayers == { LayerWithError(<<1>>), LayerWithError(<<-1, 1>>) }

\* The layers of one or two nodes and fan-in one or two, before any call.
StartLayers ==
    UNION { { [output_ |-> [i \in 1 .. n |-> 0], error_ |-> [i \in 1 .. n |-> 0],
               bias_ |-> b, weights_ |-> w, act_func_ |-> a] :
                 b \in [1 .. n -> LayerBiases],
                 w \in [1 .. n -> [1 .. f -> LayerWeights]],
                 a \in ActFuncs } :
            n \in NodeCounts \ {0}, f \in NodeCounts \ {0} }

InitLayer ==
    /\ NetworkConstructed(0)
    /\ LoopUnitConstructed
    /\ TimerConstructed
    /\ ListConstructed
    /\ MatrixConstructed
    /\ layer_ \in StartLayers
    /\ layer_pc = "idle"
    /\ layer_ret = NoLayerCall
    /\ layer_calls = 0

\* A call on the layer starts.
LayerCallGuard == layer_pc = "idle" /\ layer_calls < MaxLayerCalls

\* The call op(arg) has left the layer as after.
LayerCalled(op, arg, after) ==
    /\ layer_' = after
    /\ layer_ret' = [op |-> op, arg |-> arg]
    /\ layer_calls' = layer_calls + 1
    /\ UNCHANGED <<layer_pc, networkVars, loopUnitVars, timerVars, listVars, matrixVars>>

\* feedforward(input)
layerFeedforward(input) ==
    /\ LayerCallGuard
    /\ LayerCalled("feedforward", input, feedforward(layer_, input))

\* backpropagate(reference)
layerBackpropagate(reference) ==
    /\ LayerCallGuard
    /\ LayerCalled("backpropagate", reference,
                   backpropagateReference(layer_, reference))

\* backpropagate(next_layer): a read outside the layer's own matrix ends the
\* process or delivers an arbitrary value.
layerBackpropagateNext(next_layer) ==
    /\ LayerCallGuard
    /\ \/ /\ backpropagateOutOfRange(layer_, next_layer)
          /\ layer_pc' = "crashed"
          /\ UNCHANGED <<layer_, layer_ret, layer_calls, networkVars, loopUnitVars,
                         timerVars, listVars, matrixVars>>
       \/ \E g \in GarbageVals :
            /\ ~backpropagateOutOfRange(layer_, next_layer) => g = 0
            /\ LayerCalled("backpropagateNext", next_layer.error_,
                           backpropagateNext(layer_, next_layer, g))

\* optimize(input, learning_rate)
layerOptimize(input, learning_rate) ==
    /\ LayerCallGuard
    /\ LayerCalled("optimize", input, optimize(layer_, input, learning_rate))

\* init(num_nodes, num_weights_per_node, act_func), with the generator in
\* any of its states.
layerReinit(num_nodes, num_weights_per_node, act_func) ==
    /\ LayerCallGuard
    /\ \E r \in RngStates :
          LayerCalled("init", <<num_nodes, num_weights_per_node>>,
                      layerInit(layer_, r, num_nodes, num_weights_per_node, act_func))

\* resize(num_nodes, num_weights_per_node)
layerResize(num_nodes, num_weights_per_node) ==
    /\ LayerCallGuard
    /\ \E r \in RngStates :
          LayerCalled("resize", <<num_nodes, num_weights_per_node>>,
                      resize(layer_, r, num_nodes, num_weights_per_node))

LayerFeedforwardCall == \E input \in LayerInputs : layerFeedforward(input)

LayerBackpropagateCall ==
    \E reference \in LayerReferences : layerBackpropagate(reference)

LayerBackpropagateNextCall ==
    \E next_layer \in NextLayers : layerBackpropagateNext(next_layer)

LayerOptimizeCall ==
    \E input \in LayerInputs, learning_rate \in {DenseLayerDefaultLearningRate, 2} :
        layerOptimize(input, learning_rate)

LayerReinitCall ==
    \E num_nodes \in NodeCounts \ {0}, act_func \in ActFuncs :
        layerReinit(num_nodes, numWeightsPerNode(layer_), act_func)

LayerResizeCall ==
    \E num_nodes \in NodeCounts \ {0} :
        layerResize(num_nodes, numWeightsPerNode(layer_))

NextLayer ==
    \/ LayerFeedforwardCall
    \/ LayerBackpropagateCall
    \/ LayerBackpropagateNextCall
    \/ LayerOptimizeCall
    \/ LayerReinitCall
    \/ LayerResizeCall

SpecLayer == InitLayer /\ [][NextLayer]_vars

(***************************************************************************)
(* Properties                                                              *)
(***************************************************************************)
\* A layer's fan-in is what numWeightsPerNode() reports; a layer without
\* nodes has no weight row to report it from.
FanInIs(layer, n) == numNodes(layer) > 0 => numWeightsPerNode(layer) = n

\* Node counts and fan-ins of at least one.
PositiveCounts == NodeCounts \ {0}

\* Every layer of the network has nodes, and every node has weights.
HasNodesAndWeights(layer) == numNodes(layer) > 0 /\ numWeightsPerNode(layer) > 0

AllLayersHaveNodesAndWeights ==
    /\ HasNodesAndWeights(output_layer_)
    /\ \A i \in 1 .. Len(hidden_layers_) : HasNodesAndWeights(hidden_layers_[i])

IsPermutationOfIndices(order, n) ==
    /\ Len(order) = n
    /\ \A i \in 0 .. n - 1 : \E k \in 1 .. n : order[k] = i

\* C1: a train call with learning_rate <= 0 or with no training set stored
\* returns false and runs no epoch: the layers, the stored inputs and targets
\* and the training order are what they were before the call.
C1_RejectedTrainChangesNothing ==
    [][(pc = "idle" /\ (pc' = "train" \/ ret'.op = "train")) =>
          \A num_epochs \in 0 .. MaxEpochs, learning_rate \in LearningRates :
             (/\ learning_rate <= 0 \/ numTrainingSets = 0
              /\ train(num_epochs, learning_rate))
             => /\ ret'.op = "train" /\ ret'.value = FALSE
                /\ pc' = "idle"
                /\ epochs_run' = epochs_run /\ updates' = updates
                /\ UNCHANGED <<hidden_layers_, output_layer_,
                               train_in_, train_out_, train_order_>>]_vars

\* A train call was rejected for its learning rate while data was stored.
C1_Witness ==
    /\ ret.op = "train" /\ ret.value = FALSE
    /\ pc = "idle"
    /\ numTrainingSets = 2 /\ Len(train_in_) = 2 /\ Len(train_out_) = 2

\* C2 as stated: a train call that returns true leaves inputs, targets and
\* order empty, a train call on an empty store returns false, and only the
\* return of train and removeTrainingData take the network from some
\* training sets to none.
C2_OnlyTrainAndRemoveDiscard ==
    [][/\ trainReturn =>
            (train_in_' = << >> /\ train_out_' = << >> /\ train_order_' = << >>)
       /\ (TrainCallFew /\ numTrainingSets = 0) =>
            (ret'.op = "train" /\ ret'.value = FALSE /\ pc' = "idle")
       /\ (numTrainingSets > 0 /\ numTrainingSets' = 0) =>
            (trainReturn \/ removeTrainingData)]_vars

\* C2 amended: as C2, but addTrainingData given an empty input list or an
\* empty target list also takes the network from some training sets to none.
C2_TrainDiscardsData ==
    [][/\ trainReturn =>
            (train_in_' = << >> /\ train_out_' = << >> /\ train_order_' = << >>)
       /\ (TrainCallFew /\ numTrainingSets = 0) =>
            (ret'.op = "train" /\ ret'.value = FALSE /\ pc' = "idle")
       /\ (numTrainingSets > 0 /\ numTrainingSets' = 0) =>
            \/ trainReturn
            \/ removeTrainingData
            \/ \E ab \in AddTrainingDataArgsFew :
                  /\ ab[1] = 0 \/ ab[2] = 0
                  /\ addTrainingData(SubSeq(InputData, 1, ab[1]),
                                     SubSeq(TargetData, 1, ab[2]))]_vars

\* A train call ran its examples and returned true; no data is left.
C2_Witness ==
    /\ ret.op = "train" /\ ret.value = TRUE
    /\ pc = "idle"
    /\ updates > 0
    /\ numTrainingSets = 0 /\ train_in_ = << >> /\ train_out_ = << >>

\* C3: a train call that returns true has run exactly num_epochs epochs; at
\* the start of each the training order is a permutation of 0 .. n - 1, at
\* its end every stored example has had exactly one update, and
\* num_epochs * n updates were made in all.
C3_EpochsAndUpdates ==
    [][/\ randomizeTrainingOrder =>
            IsPermutationOfIndices(train_order_', Len(train_in_))
       /\ executeEpochEnd =>
            IsPermutationOfIndices(visited, Len(train_in_))
       /\ trainReturn =>
            /\ epochs_run = frame.num_epochs
            /\ updates = frame.num_epochs * Len(train_in_)]_vars

\* A train call of MaxEpochs epochs on MaxSets training sets has returned.
C3_Witness ==
    /\ ret.op = "train" /\ ret.value = TRUE
    /\ pc = "idle"
    /\ epochs_run = MaxEpochs
    /\ updates = MaxEpochs * MaxSets

\* C4: after addTrainingData(inputs, targets) the network stores the first
\* min(len(inputs), len(targets)) entries of each argument, in their order,
\* and the training order is 0, 1, ..., min - 1.
C4_AddTrainingDataTruncates ==
    [][(pc = "idle" /\ pc' = "idle" /\ ret'.op = "addTrainingData") =>
          LET a == ret'.args[1]
              b == ret'.args[2]
          IN  addTrainingData(SubSeq(InputData, 1, a), SubSeq(TargetData, 1, b))
              => /\ numTrainingSets' = Min(a, b)
                 /\ train_in_' = SubSeq(InputData, 1, Min(a, b))
                 /\ train_out_' = SubSeq(TargetData, 1, Min(a, b))
                 /\ train_order_' = [i \in 1 .. Min(a, b) |-> i - 1]]_vars

\* addTrainingData was given more inputs than targets.
C4_Witness ==
    /\ ret.op = "addTrainingData"
    /\ ret.args = <<MaxSets, MaxSets - 1>>
    /\ numTrainingSets = MaxSets - 1

\* C5: in every state reached by init, addHiddenLayer and addHiddenLayers
\* calls, each hidden layer but the first has the node count of the layer
\* before it as its fan-in, and the output layer has the node count of the
\* last hidden layer as its fan-in.  Stated for the networks all of whose
\* layers have nodes and weights, built without an undefined access.
C5_FanInChain ==
    (ub = {} /\ AllLayersHaveNodesAndWeights) =>
        /\ \A i \in 2 .. Len(hidden_layers_) :
              FanInIs(hidden_layers_[i], numNodes(hidden_layers_[i - 1]))
        /\ Len(hidden_layers_) > 0 =>
              FanInIs(output_layer_,
                      numNodes(hidden_layers_[Len(hidden_layers_)]))

\* C6: after init(num_inputs, num_hidden_nodes, num_outputs, ...) the network
\* has exactly one hidden layer, of num_hidden_nodes nodes and fan-in
\* num_inputs, and an output layer of num_outputs nodes and fan-in
\* num_hidden_nodes.  Stated for arguments of at least one.
C6_InitBuildsOneHiddenLayer ==
    [][\A num_inputs, num_hidden_nodes, num_outputs \in PositiveCounts :
          \A hidden_layer_act_func, output_layer_act_func \in ActFuncs :
             (/\ ub = {}
              /\ Len(hidden_layers_) = 0 \/ AllLayersHaveNodesAndWeights
              /\ init(num_inputs, num_hidden_nodes, num_outputs,
                      hidden_layer_act_func, output_layer_act_func))
             => /\ Len(hidden_layers_') = 1
                /\ numNodes(hidden_layers_'[1]) = num_hidden_nodes
                /\ FanInIs(hidden_layers_'[1], num_inputs)
                /\ numNodes(output_layer_') = num_outputs
                /\ FanInIs(output_layer_', num_hidden_nodes)]_vars

\* C7: addHiddenLayer(k, act) on a network with a hidden layer adds exactly
\* one hidden layer; it has k nodes and the node count of the layer that was
\* last before as its fan-in, and the output layer's fan-in is k.
C7_AddHiddenLayerAppendsOne ==
    [][\A k \in NodeCounts, act \in ActFuncs :
          (/\ Len(hidden_layers_) > 0
           /\ ret'.op = "addHiddenLayer"
           /\ addHiddenLayer(k, act))
          => /\ Len(hidden_layers_') = Len(hidden_layers_) + 1
             /\ numNodes(hidden_layers_'[Len(hidden_layers_')]) = k
             /\ FanInIs(hidden_layers_'[Len(hidden_layers_')],
                        numNodes(hidden_layers_[Len(hidden_layers_)]))
             /\ FanInIs(output_layer_', k)]_vars

\* addHiddenLayer has added a second hidden layer of another width, and the
\* output layer has nodes whose fan-in can be read.
C7_Witness ==
    /\ ret.op = "addHiddenLayer"
    /\ ub = {}
    /\ Len(hidden_layers_) = 2
    /\ numNodes(hidden_layers_[1]) = 1
    /\ numNodes(hidden_layers_[2]) = 2
    /\ numNodes(output_layer_) = 2

\* C8: in a network with a hidden layer numInputs() is the fan-in of the
\* first hidden layer, and numOutputs() the node count of the output layer.
\* Stated for the networks all of whose layers have nodes and weights.
C8_NumInputsIsFanIn ==
    (ub = {} /\ Len(hidden_layers_) > 0 /\ AllLayersHaveNodesAndWeights) =>
        /\ FanInIs(hidden_layers_[1], numInputs)
        /\ numOutputs = numNodes(output_layer_)

\* C9: init on a network without hidden layers gives the hidden layer
\* hidden_layer_act_func and the output layer output_layer_act_func, and no
\* other call changes the activation of a layer.  Stated for arguments of at
\* least one.
C9_InitSetsActivations ==
    [][/\ \A num_inputs, num_hidden_nodes, num_outputs \in PositiveCounts :
          \A hidden_layer_act_func, output_layer_act_func \in ActFuncs :
             (/\ Len(hidden_layers_) = 0
              /\ init(num_inputs, num_hidden_nodes, num_outputs,
                      hidden_layer_act_func, output_layer_act_func))
             => /\ hidden_layers_'[1].act_func_ = hidden_layer_act_func
                /\ output_layer_'.act_func_ = output_layer_act_func
       /\ ~InitCall =>
             /\ output_layer_'.act_func_ = output_layer_.act_func_
             /\ \A i \in 1 .. Len(hidden_layers_) :
                   hidden_layers_'[i].act_func_ = hidden_layers_[i].act_func_]_vars

\* The shape of one DenseLayer.
LayerShapeOk(layer) ==
    /\ Len(layer.weights_) = numNodes(layer)
    /\ Len(layer.bias_) = numNodes(layer)
    /\ Len(layer.output_) = numNodes(layer)
    /\ Len(layer.error_) = numNodes(layer)
    /\ \A i \in 1 .. Len(layer.weights_) :
          Len(layer.weights_[i]) = numWeightsPerNode(layer)

\* C10: every DenseLayer, the output layer and each hidden layer, has as
\* many weight rows, biases, outputs and errors as numNodes(), and every
\* weight row has numWeightsPerNode() elements.
C10_LayerShape ==
    /\ LayerShapeOk(output_layer_)
    /\ \A i \in 1 .. Len(hidden_layers_) : LayerShapeOk(hidden_layers_[i])

\* The output layer was resized by addHiddenLayer to fewer weights per node,
\* with more than one node.
C10_Witness ==
    /\ ret.op = "addHiddenLayer"
    /\ Len(hidden_layers_) = 2
    /\ numNodes(hidden_layers_[1]) = 2
    /\ numNodes(output_layer_) = 2
    /\ numWeightsPerNode(output_layer_) = 1

\* The layer with its outputs and errors cleared, sizes kept.
WithoutOutputAndError(layer) ==
    [layer EXCEPT !.output_ = [i \in 1 .. Len(layer.output_) |-> 0],
                  !.error_ = [i \in 1 .. Len(layer.error_) |-> 0]]

\* The network with the outputs and errors of every layer cleared.
NetWithoutOutputAndError ==
    [hidden |-> [n \in 1 .. Len(hidden_layers_) |->
                    WithoutOutputAndError(hidden_layers_[n])],
     output |-> WithoutOutputAndError(output_layer_)]

\* C11: what predict(input) returns is what the forward pass gives from the
\* input, the weights and the biases alone, whatever outputs and errors the
\* layers held before; and predict with the same input on the network as the
\* call left it returns the same vector again.
C11_PredictRepeatable ==
    [][ret'.op = "predict" =>
          \A n \in 1 .. MaxPrints :
             (Len(hidden_layers_) > 0 /\ predict(InputData[n]))
             => /\ ret'.value
                   = networkFeedforward(NetWithoutOutputAndError,
                                        InputData[n]).output.output_
                /\ ret'.value
                   = networkFeedforward([hidden |-> hidden_layers_',
                                         output |-> output_layer_'],
                                        InputData[n]).output.output_]_vars

\* predict has returned a vector that is not all zero on a network that was
\* trained before, whose output layer holds an error from that training.
C11_Witness ==
    /\ ret.op = "predict"
    /\ epochs_total > 0
    /\ \E i \in 1 .. Len(ret.value) : ret.value[i] # 0
    /\ \E i \in 1 .. Len(output_layer_.error_) : output_layer_.error_[i] # 0

\* Everything of a layer but its output vector.
AllButOutput(layer) ==
    [weights_ |-> layer.weights_, bias_ |-> layer.bias_,
     error_ |-> layer.error_, act_func_ |-> layer.act_func_]

\* C12: predict and printPredictions on a network with a hidden layer change
\* nothing but the output vectors of the layers: the weights, biases and
\* errors of every layer, the number of hidden layers and the stored training
\* inputs, targets and order stay as they were.
C12_PredictChangesOnlyOutputs ==
    [][ret'.op \in {"predict", "printPredictions"} =>
          ((Len(hidden_layers_) > 0 /\ (PredictCall \/ PrintPredictionsCall))
           => /\ Len(hidden_layers_') = Len(hidden_layers_)
              /\ \A i \in 1 .. Len(hidden_layers_) :
                    AllButOutput(hidden_layers_'[i]) = AllButOutput(hidden_layers_[i])
              /\ AllButOutput(output_layer_') = AllButOutput(output_layer_)
              /\ UNCHANGED <<train_in_, train_out_, train_order_>>)]_vars

\* printPredictions has printed two predictions on a trained network that
\* has training sets loaded again and errors left by the training.
C12_Witness ==
    /\ ret.op = "printPredictions"
    /\ Len(ret.value) = 2
    /\ numTrainingSets > 0
    /\ epochs_total > 0
    /\ \E i \in 1 .. Len(output_layer_.error_) : output_layer_.error_[i] # 0

\* C13: in every example update of train, each hidden layer and the output
\* layer are optimized with the learning rate given to train: bias_[i] grows
\* by error_[i] * learning_rate and weights_[i][j] by
\* error_[i] * learning_rate * input[j].  Stated for the updates whose
\* backward pass stays inside the weight matrices.
C13_OptimizeUsesLearningRate ==
    [][(pc = "executeEpoch" /\ updates' = updates + 1 /\ ub' = {}) =>
          LET i == train_order_[frame.k + 1]
              net == networkBackpropagate(
                         networkFeedforward(Net, train_in_[i + 1]),
                         train_out_[i + 1], 0)
          IN  /\ \A n \in 1 .. Len(hidden_layers_) :
                    hidden_layers_'[n]
                    = optimize(net.hidden[n],
                               IF n = 1 THEN train_in_[i + 1]
                                        ELSE net.hidden[n - 1].output_,
                               frame.learning_rate)
              /\ output_layer_'
                 = optimize(net.output,
                            net.hidden[Len(net.hidden)].output_,
                            frame.learning_rate)]_vars

\* C15: a LoopUnit never holds more than MaxNumSensors sensors, and an
\* addSensor call on a full unit, or with nullptr, returns false and leaves
\* the list of sensors as it was.
C15_NumSensorsWithinCapacity ==
    /\ [](numSensors <= MaxNumSensors)
    /\ [][(loop_ret'.op = "addSensor" /\ (full \/ loop_ret'.arg = 0))
          => (loop_ret'.value = FALSE /\ sensors_' = sensors_)]_vars

\* addSensor has returned false on a unit that holds MaxNumSensors sensors.
C15_Witness ==
    /\ loop_ret.op = "addSensor"
    /\ loop_ret.arg # 0
    /\ loop_ret.value = FALSE
    /\ numSensors = MaxNumSensors

\* C16: addSensors returns true exactly when the call added at least one
\* sensor to the unit.
C16_AddSensorsTrueIffAdded ==
    [][loop_ret'.op = "addSensors"
       => (loop_ret'.value <=> Len(sensors_') > Len(sensors_))]_vars

\* C17: elapsed() returns true exactly when the timer is enabled, its elapse
\* time is not zero and at least the elapse time has passed since the last
\* start() or the last elapsed() that returned true; returning true it
\* restarts the interval at the current time, returning false it leaves the
\* timer as it was; a stopped timer's elapsed() returns false.
C17_ElapsedExactlyWhenDue ==
    [][(timer_ret'.op = "elapsed" /\ elapsed) =>
          /\ timer_ret'.value
             <=> (/\ enabled_
                  /\ elapse_time_ns_ # 0
                  /\ now - interval_start >= elapse_time_ns_)
          /\ timer_ret'.value => (start_time_' = now' /\ enabled_')
          /\ ~timer_ret'.value
             => UNCHANGED <<elapse_time_ns_, start_time_, enabled_>>
          /\ ~enabled_ => ~timer_ret'.value]_vars

\* elapsed() has returned true and restarted the interval later than the
\* timer was started.
C17_Witness ==
    /\ timer_ret.op = "elapsed"
    /\ timer_ret.value
    /\ enabled_
    /\ start_time_ = timer_ret.at
    /\ start_time_ > 1

\* C18: remove with an iterator at any element of the list, the first and
\* the last included, returns true and removes exactly that element: size()
\* is one less, the other elements stay, in their order, and begin() and
\* last() are at the new first and the new last element.
C18_RemoveAnyElement ==
    [][\A iterator \in NodeAddresses :
          (/\ list_pc = "idle"
           /\ \E i \in 1 .. Len(ListNodes(nodes, myFirst)) :
                 ListNodes(nodes, myFirst)[i] = iterator
           /\ remove(iterator))
          => LET rest == SelectSeq(ListNodes(nodes, myFirst),
                                   LAMBDA a : a # iterator)
             IN  /\ list_pc' # "crashed"
                 /\ list_ret' = [op |-> "remove", value |-> TRUE]
                 /\ mySize' = mySize - 1
                 /\ ListNodes(nodes', myFirst') = rest
                 /\ \A i \in 1 .. Len(rest) :
                       /\ nodes'[rest[i]].allocated
                       /\ nodes'[rest[i]].data = nodes[rest[i]].data
                 /\ myFirst' = IF rest = << >> THEN 0 ELSE rest[1]
                 /\ myLast' = IF rest = << >> THEN 0 ELSE rest[Len(rest)]]_vars

\* C19: after resize(num_columns, num_rows, start_val), and after the
\* constructor with the same arguments, numColumns() is num_columns, every
\* column has exactly num_rows elements and every element the call created
\* is start_val, also when the matrix was not empty before.
C19_ResizeSetsDimensionsAndStartValue ==
    [][\A num_columns \in 0 .. MaxColumns, num_rows \in 0 .. MaxRows, start_val \in MatrixValues :
          (\/ matrixResize(num_columns, num_rows, start_val)
           \/ (data_ = << >> /\ Matrix(num_columns, num_rows, start_val)))
          => /\ Len(data_') = num_columns
             /\ \A j \in 1 .. Len(data_') :
                   /\ Len(data_'[j]) = num_rows
                   /\ \A i \in 1 .. Len(data_'[j]) :
                         (j > Len(data_) \/ i > Len(data_[j]))
                         => data_'[j][i] = start_val]_vars

\* sum of error[j] * weights[j][i] for j in 1 .. n.
RECURSIVE WeightedErrorSum(_, _, _, _)
WeightedErrorSum(error, weights, i, n) ==
    IF n = 0 THEN 0
    ELSE error[n] * weights[n][i] + WeightedErrorSum(error, weights, i, n - 1)

\* C20: in the backward pass of every example update, the error of node i of
\* a hidden layer is the sum over the nodes j of the layer after it (the
\* next hidden layer, the output layer for the last one) of that layer's
\* error[j] times that layer's weights[j][i], times the activation derivative
\* at the node's own output.  Stated for the updates whose backward pass
\* stays inside the weight matrices, and for the nodes i the next layer has
\* a weight for.
C20_BackpropagateUsesNextLayerWeights ==
    [][(pc = "executeEpoch" /\ updates' = updates + 1 /\ ub' = {}) =>
          LET fwd == networkFeedforward(Net, train_in_[train_order_[frame.k + 1] + 1])
              last == Len(hidden_layers_)
          IN  \A n \in 1 .. last :
                  LET nextError == IF n = last THEN output_layer_'.error_
                                               ELSE hidden_layers_'[n + 1].error_
                      nextWeights == IF n = last THEN output_layer_.weights_
                                                 ELSE hidden_layers_[n + 1].weights_
                  IN  \A i \in 1 .. numNodes(hidden_layers_[n]) :
                          (\A j \in 1 .. Len(nextWeights) : i <= Len(nextWeights[j]))
                          => hidden_layers_'[n].error_[i]
                             = WeightedErrorSum(nextError, nextWeights, i, Len(nextWeights))
                               * getActFuncDelta(fwd.hidden[n].output_[i],
                                                 hidden_layers_[n].act_func_)]_vars

\* C21: a backward pass of train never reads outside a weight matrix: in
\* every DenseLayer::backpropagate(next_layer) the row index is below the
\* row count of the matrix read and the column index below its row length.
C21_BackpropagateStaysInRange ==
    (pc = "executeEpoch" /\ frame.k < Len(train_order_) /\ Len(hidden_layers_) > 0)
    => ~networkBackpropagateOutOfRange(Net)

\* C22: on a network without hidden layers on which no init call was made
\* and no undefined access has happened, no public call accesses an element
\* of hidden_layers_.
C22_NoAccessWhileEmpty ==
    [][(hidden_layers_ = << >> /\ ub = {}) => "hidden_layers_" \notin ub']_vars

\* C23: every example update of an epoch is, on the example's index i taken
\* from train_order_, the forward pass of all layers on train_in_[i] with
\* the weights of before the update, then the backward pass of all layers on
\* the outputs of that forward pass and the same weights, then the update of
\* all layers with the errors of that backward pass; the update is complete
\* (the index is counted as done) before the next index is taken, so the
\* next forward pass starts from the updated weights.
C23_PassesInOrderPerExample ==
    [][(pc = "executeEpoch" /\ updates' = updates + 1) =>
          LET i == train_order_[frame.k + 1]
              fwd == networkFeedforward(Net, train_in_[i + 1])
          IN  /\ \E g \in GarbageVals :
                    LET bwd == networkBackpropagate(fwd, train_out_[i + 1], g)
                        opt == networkOptimize(bwd, train_in_[i + 1], frame.learning_rate)
                    IN  /\ bwd.output.weights_ = output_layer_.weights_
                        /\ \A n \in 1 .. Len(hidden_layers_) :
                              /\ bwd.hidden[n].weights_ = hidden_layers_[n].weights_
                              /\ hidden_layers_'[n].output_ = fwd.hidden[n].output_
                              /\ hidden_layers_'[n].error_ = bwd.hidden[n].error_
                        /\ output_layer_'.output_ = fwd.output.output_
                        /\ output_layer_'.error_ = bwd.output.error_
                        /\ hidden_layers_' = opt.hidden
                        /\ output_layer_' = opt.output
              /\ frame'.k = frame.k + 1
              /\ visited' = Append(visited, i)
              /\ pc' = "executeEpoch"]_vars

\* The second example update of an epoch has been made, without any
\* undefined read, on a network whose errors are not all zero.
C23_Witness ==
    /\ pc = "executeEpoch"
    /\ Len(visited) = 2
    /\ ub = {}
    /\ \E i \in 1 .. Len(output_layer_.error_) : output_layer_.error_[i] # 0
    /\ \E i \in 1 .. Len(hidden_layers_[1].error_) : hidden_layers_[1].error_[i] # 0

\* C24: the backward pass of every example update leaves in the output layer
\* the error computed from the target, and in each hidden layer the error
\* computed from the error this same pass left in the layer after it (the
\* output layer for the last hidden layer), so the layers are worked from
\* the output layer back to the first hidden layer.
C24_BackwardPassInReverseOrder ==
    [][(pc = "executeEpoch" /\ updates' = updates + 1) =>
          LET i == train_order_[frame.k + 1]
              fwd == networkFeedforward(Net, train_in_[i + 1])
              last == Len(hidden_layers_)
          IN  /\ output_layer_'.error_
                 = backpropagateReference(fwd.output, train_out_[i + 1]).error_
              /\ \A n \in 1 .. last :
                    \E g \in GarbageVals :
                        hidden_layers_'[n].error_
                        = backpropagateNext(
                              fwd.hidden[n],
                              IF n = last THEN output_layer_' ELSE hidden_layers_'[n + 1],
                              g).error_]_vars

\* An example update has been made on a network with two hidden layers,
\* without any undefined read, and has left errors other than zero in both.
C24_Witness ==
    /\ pc = "executeEpoch"
    /\ Len(visited) > 0
    /\ ub = {}
    /\ Len(hidden_layers_) = 2
    /\ \A n \in 1 .. 2 :
          \E i \in 1 .. Len(hidden_layers_[n].error_) : hidden_layers_[n].error_[i] # 0

\* The outputs a forward pass on input leaves: those of the first hidden
\* layer come from input, those of every other hidden layer from the outputs
\* the pass left in the layer before it, those of the output layer from the
\* outputs the pass left in the last hidden layer.
ForwardPassLeft(input) ==
    /\ hidden_layers_'[1].output_ = feedforward(hidden_layers_[1], input).output_
    /\ \A n \in 2 .. Len(hidden_layers_) :
          hidden_layers_'[n].output_
          = feedforward(hidden_layers_[n], hidden_layers_'[n - 1].output_).output_
    /\ output_layer_'.output_
       = feedforward(output_layer_,
                     hidden_layers_'[Len(hidden_layers_)].output_).output_

\* C25: the forward pass of predict and of every example update of train
\* evaluates the first hidden layer on the input given, each further hidden
\* layer on the output just computed for the layer before it and the output
\* layer on the output just computed for the last hidden layer; predict
\* returns the output layer's output.
C25_ForwardPassInLayerOrder ==
    /\ [][ret'.op = "predict" =>
             \A n \in 1 .. MaxPrints :
                (Len(hidden_layers_) > 0 /\ predict(InputData[n]))
                => /\ ForwardPassLeft(InputData[n])
                   /\ ret'.value = output_layer_'.output_]_vars
    /\ [][(pc = "executeEpoch" /\ updates' = updates + 1) =>
             ForwardPassLeft(train_in_[train_order_[frame.k + 1] + 1])]_vars

\* predict has returned a vector that is not all zero on a network with two
\* hidden layers, and has left outputs other than zero in both.
C25_Witness ==
    /\ ret.op = "predict"
    /\ pc = "idle"
    /\ Len(hidden_layers_) = 2
    /\ \E i \in 1 .. Len(ret.value) : ret.value[i] # 0
    /\ \A n \in 1 .. 2 :
          \E i \in 1 .. Len(hidden_layers_[n].output_) : hidden_layers_[n].output_[i] # 0

\* sum of weights[j] * input[j] over the j from 1 to n that both vectors have.
RECURSIVE InputSum(_, _, _)
InputSum(weights, input, n) ==
    IF n = 0 THEN 0
    ELSE InputSum(weights, input, n - 1)
         + (IF n <= Len(weights) /\ n <= Len(input) THEN weights[n] * input[n] ELSE 0)

\* C26: feedforward(input) leaves in output_[i], for every node i, the
\* activation of bias_[i] plus the sum of weights_[i][j] * input[j] over the
\* j below both the fan-in and the length of input, the activation of RELU
\* being max(0, x); a node with weights w, -w and bias 0 gets output 0 from
\* the input 2, 2; and the call ends without an undefined access whether
\* input is shorter or longer than the fan-in, changing nothing else.
C26_FeedforwardComputesActivation ==
    [][\A input \in LayerInputs :
          layerFeedforward(input) =>
             /\ layer_pc' = "idle"
             /\ Len(layer_'.output_) = numNodes(layer_)
             /\ \A i \in 1 .. numNodes(layer_) :
                   LET sum == layer_.bias_[i]
                              + InputSum(layer_.weights_[i], input,
                                         Min(numWeightsPerNode(layer_), Len(input)))
                   IN  /\ layer_'.output_[i]
                          = IF layer_.act_func_ = "RELU"
                            THEN (IF sum > 0 THEN sum ELSE 0)
                            ELSE tanh(sum)
                       /\ (/\ input = <<2, 2>>
                           /\ layer_.bias_[i] = 0
                           /\ \E w \in LayerWeights : layer_.weights_[i] = <<w, -w>>)
                          => layer_'.output_[i] = 0
             /\ [layer_' EXCEPT !.output_ = layer_.output_] = layer_]_vars

\* feedforward has been called with the input 2, 2 on a layer of two nodes,
\* the first with weights 1, -1 and bias 0 and output 0, the second with an
\* output other than 0.
C26_Witness ==
    /\ layer_ret = [op |-> "feedforward", arg |-> <<2, 2>>]
    /\ layer_pc = "idle"
    /\ numNodes(layer_) = 2
    /\ layer_.weights_[1] = <<1, -1>>
    /\ layer_.bias_[1] = 0
    /\ layer_.output_[1] = 0
    /\ layer_.output_[2] # 0

\* C27: backpropagate(reference) writes error_[i] = (reference[i] -
\* output_[i]) * the activation derivative at output_[i] for the nodes i that
\* reference has an entry for and leaves the error of every other node as it
\* was; entries of reference beyond the last node have no effect, and
\* output_, weights_ and bias_ are unchanged.
C27_BackpropagateWritesUpToReference ==
    [][\A reference \in LayerReferences :
          layerBackpropagate(reference) =>
             /\ layer_pc' = "idle"
             /\ Len(layer_'.error_) = numNodes(layer_)
             /\ \A i \in 1 .. numNodes(layer_) :
                   layer_'.error_[i]
                   = IF i <= Len(reference)
                     THEN (reference[i] - layer_.output_[i])
                          * getActFuncDelta(layer_.output_[i], layer_.act_func_)
                     ELSE layer_.error_[i]
             /\ layer_'.output_ = layer_.output_
             /\ layer_'.weights_ = layer_.weights_
             /\ layer_'.bias_ = layer_.bias_
             /\ layer_'.act_func_ = layer_.act_func_]_vars

\* backpropagate has been called with a reference of one entry on a layer of
\* two nodes: the first node's error is written, the second node holds an
\* error other than zero from a call before.
C27_Witness ==
    /\ layer_ret = [op |-> "backpropagate", arg |-> <<2>>]
    /\ numNodes(layer_) = 2
    /\ layer_.error_[1] # 0
    /\ layer_.error_[2] # 0

\* C28: the weights and biases of a layer change in optimize, init and
\* resize only: feedforward, backpropagate(reference) and
\* backpropagate(next_layer) leave weights_ and bias_ as they were, and
\* optimize leaves output_ and error_ as they were.
C28_WeightsChangeOnlyInOptimize ==
    /\ [][(/\ layer_calls' = layer_calls + 1
            /\ layer_ret'.op \in {"feedforward", "backpropagate", "backpropagateNext"})
             => (layer_'.weights_ = layer_.weights_ /\ layer_'.bias_ = layer_.bias_)]_vars
    /\ [][(layer_'.weights_ # layer_.weights_ \/ layer_'.bias_ # layer_.bias_)
             => layer_ret'.op \in {"optimize", "init", "resize"}]_vars
    /\ [][(layer_calls' = layer_calls + 1 /\ layer_ret'.op = "optimize")
             => (layer_'.output_ = layer_.output_ /\ layer_'.error_ = layer_.error_)]_vars

\* optimize has changed a weight of a layer that holds an output and an
\* error other than zero.
C28_Witness ==
    /\ layer_ret.op = "optimize"
    /\ \E i \in 1 .. numNodes(layer_) :
          /\ layer_.output_[i] # 0
          /\ layer_.error_[i] # 0
          /\ \E j \in 1 .. Len(layer_.weights_[i]) : layer_.weights_[i][j] \notin LayerWeights

\* C29: init and resize of a layer replace all it held: on a layer used on
\* its own, and on the output layer at every addHiddenLayer and
\* addHiddenLayers call, every output and every error of the layer is 0
\* after the call, whatever was computed before it.
C29_ReinitReplacesState ==
    /\ [][(layer_calls' = layer_calls + 1 /\ layer_ret'.op \in {"init", "resize"})
             => /\ \A i \in 1 .. Len(layer_'.output_) : layer_'.output_[i] = 0
                /\ \A i \in 1 .. Len(layer_'.error_) : layer_'.error_[i] = 0]_vars
    /\ [][(AddHiddenLayerCallFew \/ AddHiddenLayersCallFew)
             => /\ \A i \in 1 .. Len(output_layer_'.output_) : output_layer_'.output_[i] = 0
                /\ \A i \in 1 .. Len(output_layer_'.error_) : output_layer_'.error_[i] = 0]_vars

\* C30: in every state the stored inputs, the stored targets and the
\* training order have the same length, which is numTrainingSets(), and every
\* value of the training order is an index of both stored sequences; and
\* addTrainingData on a network that holds training sets stores its
\* arguments in place of them.
C30_TrainingStoreConsistent ==
    /\ [](/\ Len(train_in_) = numTrainingSets
          /\ Len(train_out_) = numTrainingSets
          /\ Len(train_order_) = numTrainingSets
          /\ \A k \in 1 .. Len(train_order_) :
                /\ train_order_[k] \in 0 .. Len(train_in_) - 1
                /\ train_order_[k] \in 0 .. Len(train_out_) - 1)
    /\ [][(pc = "idle" /\ pc' = "idle" /\ ret'.op = "addTrainingData" /\ numTrainingSets > 0) =>
             LET a == ret'.args[1]
                 b == ret'.args[2]
             IN  addTrainingData(SubSeq(InputData, 1, a), SubSeq(TargetData, 1, b))
                 => /\ train_in_' = SubSeq(InputData, 1, Min(a, b))
                    /\ train_out_' = SubSeq(TargetData, 1, Min(a, b))
                    /\ numTrainingSets' = Min(a, b)]_vars

\* A train call is inside its second epoch on two training sets, their
\* order shuffled.
C30_Witness ==
    /\ pc = "executeEpoch"
    /\ epochs_run = 2
    /\ Len(train_in_) = 2
    /\ train_order_ = <<1, 0>>

====
